---- MODULE Spec2Model ----
(***************************************************************************)
(* The reactive core of MonkeysJS (effect / track / trigger / reactive /   *)
(* ref / computed / watch) as a small-step machine.  JavaScript is         *)
(* single-threaded and the engine re-enters itself (a write triggers       *)
(* effects that read computeds that run getters ...), so the machine keeps *)
(* the JavaScript call stack explicitly: every frame is a function of the  *)
(* engine that is waiting for a callee to return.                          *)
(***************************************************************************)
EXTENDS Integers, Sequences, FiniteSets, TLC

(***************************************************************************)
(* Bounds of the model.                                                    *)
(***************************************************************************)
\* user statements (writes, reads, stops, timers) executed in one behaviour
MaxOps == 3
\* largest array length the user program produces
MaxLen == 3

(***************************************************************************)
(* JavaScript values.                                                      *)
(***************************************************************************)
Num(i) == [k |-> "num", n |-> i, o |-> ""]
NaN == [k |-> "nan", n |-> 0, o |-> ""]
Undef == [k |-> "undef", n |-> 0, o |-> ""]
\* a plain (raw) object, named by its identity
Raw(r) == [k |-> "raw", n |-> 0, o |-> r]
\* a Proxy created by reactive(), named by its allocation number
Px(i) == [k |-> "proxy", n |-> i, o |-> ""]

IsObject(v) == v.k \in {"raw", "proxy"}
IsNaN(v) == v.k = "nan"
\* a !== b
StrictNeq(a, b) == a # b \/ IsNaN(a)
\* the getters of the user programs add up what they read: () => 0 + a + b
JsAdd(a, b) ==
    IF a.k = "num" /\ b.k = "num" THEN Num(a.n + b.n) ELSE NaN

(***************************************************************************)
(* The objects of the user program.                                        *)
(***************************************************************************)
Cells == {"x"}
Raws == {"o", "oa", "arr", "t", "ta", "tarr", "tn"}
Computeds == {"d1", "d2"}
Plain == {"e1", "e2"}
Watchers == {"wS", "wD", "wP", "wC", "wX", "wI", "wK"}
Effects == Plain \cup Computeds \cup Watchers
\* what targetMap can hold: raw objects, ref objects, computed ref objects
Targets == Raws \cup Cells \cup Computeds
NoEffect == "none"

IndexKeys == <<"0", "1", "2", "3">>
AllKeys == {"a", "b", "n", "length", "value", "0", "1", "2", "3",
            "iterate", "@@iterator", "forEach"}
\* the keys that are Symbols: Symbol.for('iterate') and Symbol.iterator
SymbolKeys == {"iterate", "@@iterator"}
\* Number(key) for the keys of the model; -1 stands for NaN
KeyNum(key) ==
    IF \E i \in 1..Len(IndexKeys) : IndexKeys[i] = key
    THEN (CHOOSE i \in 1..Len(IndexKeys) : IndexKeys[i] = key) - 1
    ELSE -1
IndexKey(i) == IndexKeys[i + 1]

\* options.flush of each watcher
Flush(w) == CASE w = "wS" -> "sync" [] w = "wP" -> "post" [] OTHER -> "default"
\* options.deep / options.immediate of the watchers of the user programs
Deep(w) == w = "wX"
Immediate(w) == w = "wI"
\* whether the watcher's callback registers a cleanup: (nv, ov, onCleanup) => onCleanup(fn)
Registers(w) == w = "wK"

(***************************************************************************)
(* Sequences used as insertion-ordered Sets.                               *)
(***************************************************************************)
Has(s, e) == \E i \in 1..Len(s) : s[i] = e
SetAdd(s, e) == IF Has(s, e) THEN s ELSE Append(s, e)
SetDelete(s, e) == SelectSeq(s, LAMBDA y : y # e)

(***************************************************************************)
(* The user programs.  A body is a list of statements; a getter returns    *)
(* 0 plus everything it read, a plain effect returns nothing.              *)
(***************************************************************************)
RdCell(c) == [op |-> "cell", t |-> c, path |-> <<>>]
RdComp(d) == [op |-> "comp", t |-> d, path |-> <<>>]
\* c.k1.k2 through the container the user holds for the raw object root
Get(root, path) == [op |-> "get", t |-> root, path |-> path]
\* if (handle) stop(handle)
Stop(e) == [op |-> "stop", t |-> e, path |-> <<>>]
\* Object.keys(c)
Keys(root) == [op |-> "keys", t |-> root, path |-> <<>>]
\* for (const v of c) {}
ForOf(root) == [op |-> "iter", t |-> root, path |-> <<>>]
\* traverse(c): the getter watch() builds for a container source
TraverseOf(root) == [op |-> "traverse", t |-> root, path |-> <<>>]
\* x.value = c.path
Copy(root, path) == [op |-> "copy", t |-> root, path |-> path]
\* c.key = SelfValue
SetKey(root, key) == [op |-> "setkey", t |-> root, path |-> <<key>>]
\* if (x.value === ThrowValue) throw new Error()
ThrowIf(c) == [op |-> "throwif", t |-> c, path |-> <<>>]
\* () => x.value: a getter that returns the cell's value itself
RetCell(c) == [op |-> "ret", t |-> c, path |-> <<>>]
\* if (x.value !== WhenValue) return
When(c) == [op |-> "when", t |-> c, path |-> <<>>]
\* the value a body writes to one of its own dependencies
SelfValue == Num(5)
WhenValue == Num(1)
ThrowValue == Num(3)

NoProg == [e \in Effects |-> <<>>]
\* a write statement the main script may execute: proxy(root).path.key = v
KeyWrite(root, path, key, vals, self) ==
    [root |-> root, path |-> path, key |-> key, vals |-> vals, self |-> self]

Scenario(name, x0, prog, setup, wcell, wkeys, reads, stops, timers) ==
    [name |-> name, x0 |-> x0, prog |-> prog, setup |-> setup, wcell |-> wcell,
     wkeys |-> wkeys, reads |-> reads, stops |-> stops, timers |-> timers]

Scenarios ==
    << \* c = reactive({a: {b: 1}}); effect(() => log(c.a.b))
       Scenario("nested", Num(1),
           [NoProg EXCEPT !["e1"] = <<Get("o", <<"a", "b">>)>>,
                          !["e2"] = <<Get("o", <<"a">>)>>],
           <<"e1", "e2">>, {},
           {KeyWrite("o", <<"a">>, "b", {Num(1), Num(2), NaN}, FALSE),
            KeyWrite("o", <<>>, "a", {}, TRUE)},
           {}, {}, FALSE),
       \* x = ref(1); d = computed(() => x.value * 2); effect(() => d.value)
       Scenario("computed", Num(1),
           [NoProg EXCEPT !["d1"] = <<RdCell("x"), RdCell("x")>>,
                          !["e1"] = <<RdComp("d1")>>],
           <<"e1">>, {Num(1), Num(2), NaN}, {}, {"d1"}, {}, FALSE),
       \* x = ref(NaN); d = computed(() => x.value); effect(() => x.value)
       Scenario("nan", NaN,
           [NoProg EXCEPT !["d1"] = <<RdCell("x")>>,
                          !["e1"] = <<RdCell("x")>>],
           <<"e1">>, {Num(1), NaN}, {}, {"d1"}, {}, FALSE),
       \* d = computed(() => c.n); effect(() => { c.n; d.value })
       Scenario("fanout", Num(1),
           [NoProg EXCEPT !["d1"] = <<Get("o", <<"n">>)>>,
                          !["e1"] = <<Get("o", <<"n">>), RdComp("d1")>>],
           <<"e1">>, {},
           {KeyWrite("o", <<>>, "n", {Num(1), Num(2), NaN}, FALSE)},
           {"d1"}, {}, FALSE),
       \* two computeds of one cell read by one effect
       Scenario("two", Num(1),
           [NoProg EXCEPT !["d1"] = <<RdCell("x")>>,
                          !["d2"] = <<RdCell("x"), RdCell("x")>>,
                          !["e1"] = <<RdComp("d1"), RdComp("d2")>>],
           <<"e1">>, {Num(1), Num(2)}, {}, {"d1", "d2"}, {}, FALSE),
       \* d2 = computed(() => x.value + d1.value)
       Scenario("diamond", Num(1),
           [NoProg EXCEPT !["d1"] = <<RdCell("x")>>,
                          !["d2"] = <<RdCell("x"), RdComp("d1")>>,
                          !["e1"] = <<RdComp("d2")>>],
           <<"e1">>, {Num(1), Num(2)}, {}, {"d1", "d2"}, {}, FALSE),
       \* an effect that stops another one
       Scenario("stop", Num(1),
           [NoProg EXCEPT !["e1"] = <<RdCell("x"), Stop("e2")>>,
                          !["e2"] = <<RdCell("x")>>],
           <<"e1", "e2">>, {Num(1), Num(2)}, {}, {}, {"e1", "e2"}, FALSE),
       \* arr = reactive([1, 2])
       Scenario("array", Num(1),
           [NoProg EXCEPT !["e1"] = <<Get("arr", <<"length">>)>>,
                          !["e2"] = <<Get("arr", <<"1">>)>>,
                          !["d1"] = <<Get("arr", <<"length">>), Get("arr", <<"1">>)>>],
           <<"e1", "e2">>, {},
           {KeyWrite("arr", <<>>, IndexKey(i), {Num(2), Num(5)}, FALSE) : i \in 0..(MaxLen - 1)}
             \cup {KeyWrite("arr", <<>>, "length", {Num(n) : n \in 1..MaxLen}, FALSE)},
           {"d1"}, {}, FALSE),
       \* watch(() => x.value, record, {flush}) for flush sync, default and post
       Scenario("watch", Num(1),
           [NoProg EXCEPT !["wS"] = <<RdCell("x")>>,
                          !["wD"] = <<RdCell("x")>>,
                          !["wP"] = <<RdCell("x")>>],
           <<"wP", "wS", "wD">>, {Num(1), Num(2), NaN}, {}, {}, {}, TRUE),
       \* watch(reactive(t), record); watch(() => x.value, record, {deep: true})
       Scenario("deep", Num(1),
           [NoProg EXCEPT !["wC"] = <<TraverseOf("t")>>,
                          !["wX"] = <<RdCell("x")>>],
           <<"wC", "wX">>, {Num(1), Num(2)},
           {KeyWrite("t", <<"a", "b", "0">>, "n", {Num(1), Num(2)}, FALSE)},
           {}, {}, FALSE),
       \* effect(() => Object.keys(c)); effect(() => c.n)
       Scenario("keys", Num(1),
           [NoProg EXCEPT !["e1"] = <<Keys("o")>>,
                          !["e2"] = <<Get("o", <<"n">>)>>],
           <<"e1", "e2">>, {},
           {KeyWrite("o", <<>>, "b", {Num(1)}, FALSE),
            KeyWrite("o", <<>>, "n", {Num(2)}, FALSE)},
           {}, {}, FALSE),
       \* effect(() => { for (const v of arr) {} }); effect(() => arr[1])
       Scenario("iter", Num(1),
           [NoProg EXCEPT !["e1"] = <<ForOf("arr")>>,
                          !["e2"] = <<Get("arr", <<"1">>)>>],
           <<"e1", "e2">>, {},
           {KeyWrite("arr", <<>>, IndexKey(MaxLen - 1), {Num(5)}, FALSE),
            KeyWrite("arr", <<>>, "length", {Num(n) : n \in 1..MaxLen}, FALSE)},
           {}, {}, FALSE),
       \* effect(() => { x.value; x.value = c.n; c.a.b });
       \* effect(() => { if (x.value === 3) throw new Error() })
       Scenario("self", Num(1),
           [NoProg EXCEPT !["e1"] = <<RdCell("x"), Copy("o", <<"n">>),
                                      Get("o", <<"a", "b">>)>>,
                          !["e2"] = <<ThrowIf("x")>>],
           <<"e1", "e2">>, {},
           {KeyWrite("o", <<>>, "n", {Num(2), Num(3)}, FALSE)},
           {}, {}, FALSE),
       \* effect(() => { c.n; c.n = 5 }); effect(() => c.n)
       Scenario("selfkey", Num(1),
           [NoProg EXCEPT !["e1"] = <<Get("o", <<"n">>), SetKey("o", "n")>>,
                          !["e2"] = <<Get("o", <<"n">>)>>],
           <<"e1", "e2">>, {},
           {KeyWrite("o", <<>>, "n", {Num(1), Num(2)}, FALSE)},
           {}, {}, FALSE),
       \* effect(() => x.value); batch(() => { batch(() => { x.value = v }); ... })
       Scenario("batch", Num(1),
           [NoProg EXCEPT !["e1"] = <<RdCell("x")>>],
           <<"e1">>, {Num(1), Num(2)}, {}, {}, {}, FALSE),
       \* x = ref(undefined); watch(() => x.value, record, {immediate: true})
       Scenario("immediate", Undef,
           [NoProg EXCEPT !["wI"] = <<RetCell("x")>>],
           <<"wI">>, {Num(1), Undef}, {}, {}, {}, FALSE),
       \* x = ref(1); watch(() => x.value, record, {immediate: true});
       \* watch(() => x.value, record)
       Scenario("immediate1", Num(1),
           [NoProg EXCEPT !["wI"] = <<RetCell("x")>>,
                          !["wD"] = <<RetCell("x")>>],
           <<"wI", "wD">>, {Num(1), Num(2)}, {}, {}, {}, FALSE),
       \* stop = watch(() => x.value, (nv, ov, onCleanup) => onCleanup(fn))
       Scenario("cleanup", Num(1),
           [NoProg EXCEPT !["wK"] = <<RdCell("x")>>],
           <<"wK">>, {Num(1), Num(2)}, {}, {}, {"wK"}, FALSE),
       \* d1 = computed(() => x.value); d2 = computed({get, set: v => { x.value = v }})
       Scenario("setter", Num(1),
           [NoProg EXCEPT !["d1"] = <<RdCell("x")>>,
                          !["d2"] = <<RdCell("x"), RdCell("x")>>,
                          !["e1"] = <<RdComp("d1")>>],
           <<"e1">>, {Num(1), Num(2)}, {}, {"d1", "d2"}, {}, FALSE),
       \* h = effect(() => x.value); h(); stop(h)
       Scenario("handle", Num(1),
           [NoProg EXCEPT !["e1"] = <<RdCell("x")>>],
           <<"e1">>, {Num(1), Num(2)}, {}, {}, {"e1"}, FALSE),
       \* watch(() => { if (x.value === 3) throw new Error() }, record);
       \* effect(() => { if (x.value === 3) throw new Error() }); effect(() => x.value)
       Scenario("throw", Num(1),
           [NoProg EXCEPT !["wD"] = <<ThrowIf("x")>>,
                          !["e1"] = <<ThrowIf("x")>>,
                          !["e2"] = <<RdCell("x")>>],
           <<"wD", "e1", "e2">>, {Num(2), Num(3)}, {}, {}, {"e1"}, FALSE),
       \* sD = watch(() => x.value, record); sP = watch(..., {flush: 'post'}); sD(); sP()
       Scenario("wstop", Num(1),
           [NoProg EXCEPT !["wD"] = <<RetCell("x")>>,
                          !["wP"] = <<RetCell("x")>>],
           <<"wD", "wP">>, {Num(1), Num(2)}, {}, {}, {"wD", "wP"}, FALSE),
       \* effect(() => { if (x.value !== 1) return; c.n })
       Scenario("branch", Num(1),
           [NoProg EXCEPT !["e1"] = <<When("x"), Get("o", <<"n">>)>>],
           <<"e1">>, {Num(1), Num(2)},
           {KeyWrite("o", <<>>, "n", {Num(2), Num(3)}, FALSE)},
           {}, {}, FALSE),
       \* effect(() => { x.value = c.n }); effect(() => { x.value; c.n = 5 })
       Scenario("mutual", Num(1),
           [NoProg EXCEPT !["e1"] = <<Copy("o", <<"n">>)>>,
                          !["e2"] = <<RdCell("x"), SetKey("o", "n")>>],
           <<"e1", "e2">>, {},
           {KeyWrite("o", <<>>, "n", {Num(2)}, FALSE)},
           {}, {}, FALSE) >>

VARIABLES
    \* --- the engine ---
    cellVal,       \* ref: the closure variable `value` of each cell
    heap,          \* the raw objects
    reactiveMap,   \* raw object -> number of its proxy (0: none)
    proxyTarget,   \* proxy number -> its raw target
    targetMap,     \* target -> depsMap (keys in insertion order, key -> dep)
    deps,          \* effectFn.deps: the deps (target, key) an effect is in
    active,        \* effectFn.active
    activeEffect,
    effectStack,
    dirty,         \* computed: dirty
    compVal,       \* computed: value
    oldValue,      \* watch: oldValue
    wcleanup,      \* watch: cleanup (0: none, n: registered by the n-th callback)
    isBatching,
    batchQueue,
    microQueue,    \* the host's microtask queue
    macroQueue,    \* the host's task queue
    \* --- the JavaScript call stack ---
    stack,
    ret,           \* the value the last call returned
    \* --- the user program ---
    sc,            \* which program runs
    created,       \* the handles effect() / watch() have returned
    ops,           \* statements executed by the main script
    \* --- history ---
    lastOp,        \* the last statement of the main script
    runs,          \* runs of each effect body since that statement began
    notified,      \* effects invoked or scheduled since that statement began
    readSet,       \* what each effect read in its latest run
    afterStop,     \* effects invoked although stop() had returned
    returned,      \* raw object -> the proxies reactive() ever returned for it
    observed,      \* the last computed value a plain effect read, and the fresh one
    getterRuns,    \* completed getter runs since the computed's upstream changed
    writes,        \* the cell writes of the main script
    evlog,         \* the watcher jobs (with or without callback) and timer callbacks
    \* --- the HTTP client (coreFetch) ---
    req,             \* the request(config) calls and how far each has got
    pendingRequests, \* cache key -> the request whose fetchPromise is stored (or NoReq)
    httpQueue,       \* the host's microtask queue: promise reactions in FIFO order
    \* --- useWebSocket ---
    wsc,             \* whether useWebSocket() has been called, and config.reconnect
    sock,            \* readyState of every socket ("none": not created yet)
    ws,              \* ws.value: the current socket
    manualClose,
    status,
    reconnectCount,
    reconnectTimer,  \* reconnectTimer.value: the id of the timer set last (0: null)
    timers,          \* the host's pending timers
    messageQueue,
    wsh,             \* history: what each socket was sent, what send() accepted, ...
    \* --- useForm ---
    formOpt,         \* the options of useForm (made: whether it has been called)
    values,          \* values.name
    errors,          \* errors.name (NoErr: no such key)
    isSubmitting,
    submitCount,
    submitError,
    sub,             \* the handleSubmit calls: how far each has got, what onSubmit was given
    validated,       \* history: what the last validate() call returned and left in errors
    \* --- createQueue ---
    concurrency,
    queue,
    running,
    task,            \* every task's fn and how far it has got
    started,         \* the tasks whose fn has been called, in that order
    \* --- the interceptors of the HTTP client ---
    requestInterceptors,
    responseInterceptors,
    usedId,          \* history: the id use() returned for each function (NoId: not used)
    lastEject,       \* history: the last eject call and the array it found
    \* --- usePolling ---
    isPolling,
    timeoutId,
    pollTimers,      \* the host's pending timers
    poll,            \* the poll() calls: awaiting execute(), or done
    pollh            \* history: whether a request was started after stop()

\* the state of watch's cleanup registration and of batch
extVars == <<wcleanup, isBatching, batchQueue>>
engineVars == <<cellVal, heap, reactiveMap, proxyTarget, targetMap, deps, active,
                activeEffect, effectStack, dirty, compVal, oldValue, microQueue,
                macroQueue, extVars>>
histVars == <<lastOp, runs, notified, readSet, afterStop, returned, observed,
              getterRuns, writes, evlog>>
\* the reactive core, and the utilities that are modelled on their own
coreVars == <<engineVars, stack, ret, sc, created, ops, histVars>>
httpVars == <<req, pendingRequests, httpQueue>>
wsVars == <<wsc, sock, ws, manualClose, status, reconnectCount, reconnectTimer, timers,
           messageQueue, wsh>>
formVars == <<formOpt, values, errors, isSubmitting, submitCount, submitError, sub,
             validated>>
queueVars == <<concurrency, queue, running, task, started>>
interceptVars == <<requestInterceptors, responseInterceptors, usedId, lastEject>>
pollVars == <<isPolling, timeoutId, pollTimers, poll, pollh>>
moreVars == <<interceptVars, pollVars>>
libVars == <<httpVars, wsVars, formVars, queueVars, moreVars>>
vars == <<coreVars, libVars>>

Prog(e) == Scenarios[sc].prog[e]

(***************************************************************************)
(* The HTTP client: coreFetch with deduplication of in-flight GET requests *)
(* and the retry loop.  A request goes through request() (which awaits the *)
(* interceptors, so coreFetch runs as a microtask), fetches, may sleep     *)
(* between attempts, and settles its fetchPromise; the reactions of that   *)
(* promise run as microtasks in the order they were registered.            *)
(***************************************************************************)
\* config.retries of the requests goes up to
MaxRetries == 1

\* the request(config) calls of the user program, in the order they are made
ReqOrder == <<"r1", "r2", "r3">>
Reqs == {ReqOrder[i] : i \in 1..Len(ReqOrder)}
NoReq == "none"
\* method and full URL: what getCacheKey builds the key from (no params, no data)
Targets3 == {<<"GET", "/a">>, <<"GET", "/b">>, <<"POST", "/a">>}
\* config.retries of the calls: the first call of the program retries, the others
\* keep the default (retries: 0)
Retries(r) == IF r = ReqOrder[1] THEN 0..MaxRetries ELSE {0}
\* how one attempt ends: a 2xx response, a 5xx or 4xx response, fetch rejecting
\* with a TypeError (network), fetch rejecting with an AbortError
Outcomes == {"ok", "500", "404", "network", "abort"}

HttpError(code) == [name |-> "HttpError", status |-> code]
\* what the try block of one attempt throws
AttemptError(o) ==
    CASE o = "500" -> HttpError(500)
      [] o = "404" -> HttpError(404)
      [] o = "network" -> [name |-> "TypeError", status |-> -1]
      [] OTHER -> [name |-> "AbortError", status |-> -1]
\* defaultConfig.retryCondition
RetryCondition(error) == error.status >= 500 \/ error.status = 0
\* a retry loop that allows one attempt too many
ShouldRetryOffByOne(attempt, retries, error) ==
    attempt <= retries /\ (IF error.name = "HttpError" THEN RetryCondition(error) ELSE TRUE)
\* attempt < retries && (error instanceof HttpError ? retryCondition(error) : true)
ShouldRetry(attempt, retries, error) ==
    attempt < retries /\ (IF error.name = "HttpError" THEN RetryCondition(error) ELSE TRUE)
\* what the catch block throws when it does not retry
Rejection(error) ==
    IF error.name = "AbortError" THEN HttpError(0) ELSE error

Unsettled == [state |-> "pending", val |-> HttpError(0)]
Fulfilled == [state |-> "fulfilled", val |-> HttpError(0)]
Rejected(error) == [state |-> "rejected", val |-> error]

NoRequest ==
    [st |-> "idle", target |-> <<"GET", "/a">>, dedupe |-> FALSE, retries |-> 0,
     attempt |-> 0, fetches |-> 0, hist |-> <<>>, leader |-> NoReq,
     joinedSettled |-> FALSE, promise |-> Unsettled, seen |-> Unsettled]
HttpInit ==
    /\ req = [r \in Reqs |-> NoRequest]
    /\ pendingRequests = [t \in Targets3 |-> NoReq]
    /\ httpQueue = <<>>

\* a lookup that never finds the request in flight
DedupedNever(pending, cfg) == FALSE
\* dedupeRequests && method === 'GET' && pendingRequests.has(cacheKey)
Deduped(pending, cfg) ==
    cfg.dedupe /\ cfg.target[1] = "GET" /\ pending[cfg.target] # NoReq
\* dedupeRequests && method === 'GET': the fetchPromise is stored under the key
Stored(cfg) == cfg.dedupe /\ cfg.target[1] = "GET"

Micro(t, r) == [t |-> t, r |-> r]
\* the requests waiting for the promise of request l, in the order they joined
Followers(l) ==
    SelectSeq(ReqOrder, LAMBDA f : req[f].leader = l /\ req[f].st = "joined")
\* the reactions of request r's fetchPromise, in the order they were registered:
\* the finally of coreFetch, the caller of r, the callers that were handed the promise
Reactions(r) ==
    (IF Stored(req[r]) THEN <<Micro("finally", r)>> ELSE <<>>)
        \o <<Micro("deliver", r)>>
        \o [i \in 1..Len(Followers(r)) |-> Micro("deliver", Followers(r)[i])]

\* client.get / client.post ...: request(config) awaits the request interceptors
\* and then calls coreFetch; the user may call it between any two microtasks
Request(r, target, dedupe, retries) ==
    /\ req[r].st = "idle"
    /\ \E i \in 1..Len(ReqOrder) :
            ReqOrder[i] = r /\ \A j \in 1..(i - 1) : req[ReqOrder[j]].st # "idle"
    /\ req' = [req EXCEPT ![r] = [@ EXCEPT !.st = "called", !.target = target,
                                           !.dedupe = dedupe, !.retries = retries]]
    /\ httpQueue' = Append(httpQueue, Micro("core", r))
    /\ UNCHANGED <<coreVars, moreVars, formVars, queueVars, wsVars, pendingRequests>>

\* coreFetch found the key in pendingRequests: return pendingRequests.get(cacheKey)
CoreFetchJoin ==
    /\ httpQueue # <<>> /\ Head(httpQueue).t = "core"
    /\ LET r == Head(httpQueue).r
           l == pendingRequests[req[r].target]
       IN  /\ Deduped(pendingRequests, req[r])
           /\ req' = [req EXCEPT ![r] = [@ EXCEPT
                          !.st = "joined", !.leader = l,
                          !.joinedSettled = req[l].promise.state # "pending"]]
           \* a promise that is settled already reacts in the next microtask
           /\ httpQueue' = IF req[l].promise.state # "pending"
                           THEN Append(Tail(httpQueue), Micro("deliver", r))
                           ELSE Tail(httpQueue)
    /\ UNCHANGED <<coreVars, moreVars, formVars, queueVars, wsVars, pendingRequests>>

\* coreFetch starts the fetchPromise: the first fetch() is called at once, and
\* pendingRequests.set(cacheKey, fetchPromise) follows in the same turn
CoreFetchStart ==
    /\ httpQueue # <<>> /\ Head(httpQueue).t = "core"
    /\ LET r == Head(httpQueue).r
       IN  /\ ~Deduped(pendingRequests, req[r])
           /\ req' = [req EXCEPT ![r] = [@ EXCEPT !.st = "fetching", !.fetches = 1]]
           /\ pendingRequests' = IF Stored(req[r])
                                 THEN [pendingRequests EXCEPT ![req[r].target] = r]
                                 ELSE pendingRequests
    /\ httpQueue' = Tail(httpQueue)
    /\ UNCHANGED <<coreVars, moreVars, formVars, queueVars, wsVars>>

\* the attempt ends with a response that is ok: return result
AttemptSucceeds(r) ==
    /\ httpQueue = <<>> /\ req[r].st = "fetching"
    /\ req' = [req EXCEPT ![r] = [@ EXCEPT !.st = "settled", !.hist = Append(@, "ok"),
                                           !.promise = Fulfilled]]
    /\ httpQueue' = Reactions(r)
    /\ UNCHANGED <<coreVars, moreVars, formVars, queueVars, wsVars, pendingRequests>>

\* the attempt ends in the catch block: rethrow, or sleep and continue
AttemptFails(r, o) ==
    /\ httpQueue = <<>> /\ req[r].st = "fetching" /\ o \in Outcomes \ {"ok"}
    /\ LET error == AttemptError(o)
           retry == /\ error.name # "AbortError"
                    /\ ShouldRetry(req[r].attempt, req[r].retries, error)
       IN  /\ req' = [req EXCEPT ![r] =
                        IF retry
                        THEN [@ EXCEPT !.st = "sleeping", !.hist = Append(@, o)]
                        ELSE [@ EXCEPT !.st = "settled", !.hist = Append(@, o),
                                       !.promise = Rejected(Rejection(error))]]
           /\ httpQueue' = IF retry THEN <<>> ELSE Reactions(r)
    /\ UNCHANGED <<coreVars, moreVars, formVars, queueVars, wsVars, pendingRequests>>

\* await sleep(delay) is over: continue with attempt + 1
RetryAttempt(r) ==
    /\ httpQueue = <<>> /\ req[r].st = "sleeping"
    /\ req' = [req EXCEPT ![r] = [@ EXCEPT !.st = "fetching", !.attempt = @ + 1,
                                           !.fetches = @ + 1]]
    /\ UNCHANGED <<coreVars, moreVars, formVars, queueVars, wsVars, pendingRequests, httpQueue>>

\* fetchPromise.finally(() => pendingRequests.delete(cacheKey))
FinallyDelete ==
    /\ httpQueue # <<>> /\ Head(httpQueue).t = "finally"
    /\ pendingRequests' = [pendingRequests EXCEPT ![req[Head(httpQueue).r].target] = NoReq]
    /\ httpQueue' = Tail(httpQueue)
    /\ UNCHANGED <<coreVars, moreVars, formVars, queueVars, wsVars, req>>

\* the caller's await of request() continues with the outcome of the promise
Deliver ==
    /\ httpQueue # <<>> /\ Head(httpQueue).t = "deliver"
    /\ LET r == Head(httpQueue).r
           l == IF req[r].leader = NoReq THEN r ELSE req[r].leader
       IN  req' = [req EXCEPT ![r] = [@ EXCEPT !.st = "done", !.seen = req[l].promise]]
    /\ httpQueue' = Tail(httpQueue)
    /\ UNCHANGED <<coreVars, moreVars, formVars, queueVars, wsVars, pendingRequests>>

NextHttp ==
    \/ \E r \in Reqs, t \in Targets3, d \in BOOLEAN :
            \E n \in Retries(r) : Request(r, t, d, n)
    \/ CoreFetchJoin
    \/ CoreFetchStart
    \/ \E r \in Reqs : AttemptSucceeds(r)
    \/ \E r \in Reqs, o \in Outcomes : AttemptFails(r, o)
    \/ \E r \in Reqs : RetryAttempt(r)
    \/ FinallyDelete
    \/ Deliver

(***************************************************************************)
(* useWebSocket: one connection object of the user, the sockets it has     *)
(* created (each keeps the handlers open() gave it), the reconnect timers  *)
(* and the queue of messages sent while no socket was open.                *)
(***************************************************************************)
\* config.reconnectAttempts of the connection
ReconnectAttempts == 2

\* the sockets in the order `new WebSocket` creates them, the messages in the
\* order the user sends them
SockOrder == <<"s1", "s2", "s3", "s4">>
Socks == {SockOrder[i] : i \in 1..Len(SockOrder)}
NoSock == "null"
MsgOrder == <<"m1", "m2">>
Msgs == {MsgOrder[i] : i \in 1..Len(MsgOrder)}

WsInit ==
    /\ wsc = [made |-> FALSE, reconnect |-> FALSE]
    /\ sock = [s \in Socks |-> "none"]
    /\ ws = NoSock
    /\ manualClose = FALSE
    /\ status = "CLOSED"
    /\ reconnectCount = 0
    /\ reconnectTimer = 0
    /\ timers = {}
    /\ messageQueue = <<>>
    /\ wsh = [sentTo |-> [s \in Socks |-> <<>>], accepted |-> {}, asked |-> {},
              last |-> "none", lastSock |-> NoSock, requested |-> FALSE,
              scheduled |-> FALSE, countWas |-> 0, timerIds |-> 0,
              closedByUser |-> FALSE, createdWhileClosed |-> FALSE]

\* the socket the next `new WebSocket` creates
NextSock == SockOrder[Cardinality({s \in Socks : sock[s] # "none"}) + 1]
CanCreate == \E s \in Socks : sock[s] = "none"
\* ws.value?.readyState === WebSocket.OPEN
CurrentIsOpen(w, sk) == w # NoSock /\ sk[w] = "open"
\* open(): if (ws.value?.readyState === WebSocket.OPEN) return
OpenReturns == CurrentIsOpen(ws, sock)
\* open(): manualClose = false; status = CONNECTING; ws = new WebSocket(url)
Open(byUser) ==
    IF OpenReturns
    THEN /\ UNCHANGED <<sock, ws, manualClose, status>>
         /\ wsh' = [wsh EXCEPT !.last = "open()",
                               !.closedByUser = IF byUser THEN FALSE ELSE @]
    ELSE /\ CanCreate
         /\ sock' = [sock EXCEPT ![NextSock] = "connecting"]
         /\ ws' = NextSock
         /\ manualClose' = FALSE
         /\ status' = "CONNECTING"
         /\ wsh' = [wsh EXCEPT !.last = "open()",
                               !.closedByUser = IF byUser THEN FALSE ELSE @,
                               !.createdWhileClosed = @ \/ (~byUser /\ wsh.closedByUser)]

\* useWebSocket(url, {reconnect, reconnectAttempts}): immediate, so open()
UseWebSocket(rc) ==
    /\ ~wsc.made
    /\ wsc' = [made |-> TRUE, reconnect |-> rc]
    /\ Open(TRUE)
    /\ UNCHANGED <<coreVars, moreVars, formVars, queueVars, httpVars, reconnectCount, reconnectTimer, timers, messageQueue>>

\* open() called by the user
UserOpen ==
    /\ wsc.made
    /\ Open(TRUE)
    /\ UNCHANGED <<coreVars, moreVars, formVars, queueVars, httpVars, wsc, reconnectCount, reconnectTimer, timers,
                   messageQueue>>

\* the callback of a reconnect timer: open()
TimerFires(t) ==
    /\ t \in timers
    /\ timers' = timers \ {t}
    /\ Open(FALSE)
    /\ UNCHANGED <<coreVars, moreVars, formVars, queueVars, httpVars, wsc, reconnectCount, reconnectTimer, messageQueue>>

\* close(): manualClose = true; clearTimeout(reconnectTimer); ws.close(); ws = null
UserClose ==
    /\ wsc.made
    /\ manualClose' = TRUE
    /\ timers' = timers \ {reconnectTimer}
    /\ reconnectTimer' = 0
    /\ sock' = IF ws # NoSock /\ sock[ws] \in {"connecting", "open"}
               THEN [sock EXCEPT ![ws] = "closing"] ELSE sock
    /\ ws' = NoSock
    /\ status' = "CLOSED"
    /\ wsh' = [wsh EXCEPT !.last = "close()", !.closedByUser = TRUE,
                          !.asked = IF ws # NoSock THEN @ \cup {ws} ELSE @]
    /\ UNCHANGED <<coreVars, moreVars, formVars, queueVars, httpVars, wsc, reconnectCount, messageQueue>>

\* the socket's onopen: status = OPEN; reconnectCount = 0;
\* while (messageQueue.length > 0) doSend(messageQueue.shift())
SockOpens(s) ==
    /\ sock[s] = "connecting"
    /\ sock' = [sock EXCEPT ![s] = "open"]
    /\ status' = "OPEN"
    /\ reconnectCount' = 0
    /\ messageQueue' = <<>>
    /\ wsh' = [wsh EXCEPT !.last = "onopen", !.lastSock = s,
                          !.sentTo = LET sk == [sock EXCEPT ![s] = "open"]
                                     IN  IF CurrentIsOpen(ws, sk)
                                         THEN [@ EXCEPT ![ws] = @ \o messageQueue]
                                         ELSE @]
    /\ UNCHANGED <<coreVars, moreVars, formVars, queueVars, httpVars, wsc, ws, manualClose, reconnectTimer, timers>>

\* a reconnect is due: !manualClose && config.reconnect && reconnectCount < reconnectAttempts
ReconnectDue == ~manualClose /\ wsc.reconnect /\ reconnectCount < ReconnectAttempts
\* the socket's onclose: status = CLOSED; if a reconnect is due,
\* reconnectCount++ and reconnectTimer = setTimeout(open, delay)
SockCloses(s) ==
    /\ sock[s] \in {"connecting", "open", "closing"}
    /\ sock' = [sock EXCEPT ![s] = "closed"]
    /\ status' = "CLOSED"
    /\ reconnectCount' = IF ReconnectDue THEN reconnectCount + 1 ELSE reconnectCount
    /\ reconnectTimer' = IF ReconnectDue THEN wsh.timerIds + 1 ELSE reconnectTimer
    /\ timers' = IF ReconnectDue THEN timers \cup {wsh.timerIds + 1} ELSE timers
    /\ wsh' = [wsh EXCEPT !.last = "onclose", !.lastSock = s,
                          \* close() was called on this socket, or was the last call
                          !.requested = s \in wsh.asked \/ wsh.closedByUser,
                          !.scheduled = ReconnectDue,
                          !.countWas = reconnectCount,
                          !.timerIds = IF ReconnectDue THEN @ + 1 ELSE @]
    /\ UNCHANGED <<coreVars, moreVars, formVars, queueVars, httpVars, wsc, ws, manualClose, messageQueue>>

\* send(data, {queue}): doSend when the socket is open, else queue it (or refuse)
Send(m, toQueue) ==
    /\ wsc.made
    /\ m \notin wsh.accepted
    /\ \E i \in 1..Len(MsgOrder) :
           MsgOrder[i] = m /\ \A j \in 1..(i - 1) : MsgOrder[j] \in wsh.accepted
    /\ IF CurrentIsOpen(ws, sock)
       THEN /\ wsh' = [wsh EXCEPT !.last = "send", !.accepted = @ \cup {m},
                                  !.sentTo[ws] = Append(@, m)]
            /\ UNCHANGED messageQueue
       ELSE /\ toQueue
            /\ messageQueue' = Append(messageQueue, m)
            /\ wsh' = [wsh EXCEPT !.last = "send", !.accepted = @ \cup {m}]
    /\ UNCHANGED <<coreVars, moreVars, formVars, queueVars, httpVars, wsc, sock, ws, manualClose, status, reconnectCount,
                   reconnectTimer, timers>>

NextWs ==
    \/ \E rc \in BOOLEAN : UseWebSocket(rc)
    \/ UserOpen
    \/ \E t \in timers : TimerFires(t)
    \/ UserClose
    \/ \E s \in Socks : SockOpens(s)
    \/ \E s \in Socks : SockCloses(s)
    \/ \E m \in Msgs, q \in BOOLEAN : Send(m, q)

(***************************************************************************)
(* useForm: handleSubmit.  The form has one field, `name`; validateOnChange *)
(* keeps its default (true).                                               *)
(***************************************************************************)
FieldValues == {"", "John", "Jane"}
SubOrder == <<"h1", "h2">>
Subs == {SubOrder[i] : i \in 1..Len(SubOrder)}
Transforms == {"none", "upper", "throws"}      \* options.transform
OnSubmits == {"resolves", "rejects", "throws"} \* what the onSubmit passed in does
NoErr == "none"
NoError == "null"

\* the user's transform: values => ({name: values.name.toUpperCase()})
Upper(v) == CASE v = "John" -> "JOHN" [] v = "Jane" -> "JANE" [] OTHER -> v

FormOptions ==
    [made : {TRUE}, initialValues : FieldValues \ {"Jane"}, rule : {"none", "required"},
     custom : BOOLEAN, validateOnSubmit : BOOLEAN, resetOnSubmit : BOOLEAN,
     transform : Transforms]

NoSub == [st |-> "idle", on |-> "none", calls |-> <<>>, formValues |-> "", valid |-> TRUE,
          result |-> [success |-> FALSE, kind |-> "none", val |-> "none"],
          submitting |-> FALSE, stored |-> NoError]

FormInit ==
    /\ formOpt = [made |-> FALSE, initialValues |-> "", rule |-> "none", custom |-> FALSE,
                  validateOnSubmit |-> TRUE, resetOnSubmit |-> FALSE, transform |-> "none"]
    /\ values = ""
    /\ errors = NoErr
    /\ isSubmitting = FALSE
    /\ submitCount = 0
    /\ submitError = NoError
    /\ sub = [h \in Subs |-> NoSub]
    /\ validated = [called |-> FALSE, ok |-> TRUE, errors |-> NoErr]

\* validateField('name'): the error left in errors.name (none: deleted)
ValidateField(v) == IF formOpt.rule = "required" /\ v = "" THEN "required" ELSE NoErr

\* validate(): errors are cleared, customValidate's errors assigned, then the
\* field rules run (and a passing rule deletes the field's error)
Validate(v) ==
    LET customErrors == IF formOpt.custom /\ v = "Jane" THEN "taken" ELSE NoErr
        customValid == ~formOpt.custom \/ customErrors = NoErr
    IN IF formOpt.rule = "none"
       THEN [ok |-> customValid, errors |-> customErrors]
       ELSE [ok |-> customValid /\ ValidateField(v) = NoErr, errors |-> ValidateField(v)]

SubmitBlockedNever(v) == FALSE

\* if (validateOnSubmit && !validate())
SubmitBlocked(v) == formOpt.validateOnSubmit /\ ~Validate(v).ok

\* transform ? transform(values) : { ...values }
SubmitValues(v) == IF formOpt.transform = "upper" THEN Upper(v) ELSE v

Failure(kind, val) == [success |-> FALSE, kind |-> kind, val |-> val]
Success == [success |-> TRUE, kind |-> "data", val |-> "result"]

UseForm(o) ==
    /\ ~formOpt.made
    /\ formOpt' = o
    /\ values' = o.initialValues
    /\ UNCHANGED <<coreVars, moreVars, httpVars, wsVars, queueVars, validated, errors, isSubmitting,
                   submitCount, submitError, sub>>

SetValue(v) ==
    /\ formOpt.made
    /\ values' = v
    /\ errors' = ValidateField(v)
    /\ UNCHANGED <<coreVars, moreVars, httpVars, wsVars, queueVars, validated, formOpt, isSubmitting,
                   submitCount, submitError, sub>>

\* validate() called by the user
ValidateCall ==
    /\ formOpt.made
    /\ errors' = Validate(values).errors
    /\ validated' = [called |-> TRUE, ok |-> Validate(values).ok, errors |-> errors']
    /\ UNCHANGED <<coreVars, moreVars, httpVars, wsVars, queueVars, formOpt, values,
                   isSubmitting, submitCount, submitError, sub>>

NextSub == CHOOSE i \in 1..Len(SubOrder) + 1 :
              /\ \A j \in 1..(i - 1) : sub[SubOrder[j]].st # "idle"
              /\ i <= Len(SubOrder) => sub[SubOrder[i]].st = "idle"

\* handleSubmit(onSubmit) up to its first await (or to its return)
HandleSubmit(b) ==
    /\ formOpt.made
    /\ NextSub <= Len(SubOrder)
    /\ LET h == SubOrder[NextSub]
           called == [NoSub EXCEPT !.on = b, !.formValues = values,
                                   !.valid = Validate(values).ok]
       IN /\ submitCount' = submitCount + 1
          /\ IF SubmitBlocked(values)
             THEN /\ errors' = Validate(values).errors
                  /\ submitError' = NoError
                  /\ sub' = [sub EXCEPT ![h] =
                               [called EXCEPT !.st = "settled",
                                              !.result = Failure("errors", errors'),
                                              !.submitting = isSubmitting,
                                              !.stored = NoError]]
                  /\ UNCHANGED isSubmitting
             ELSE /\ errors' = IF formOpt.validateOnSubmit
                               THEN Validate(values).errors ELSE errors
                  /\ IF formOpt.transform = "throws" \/ b = "throws"
                     THEN LET error == IF formOpt.transform = "throws"
                                       THEN "E_transform" ELSE "E_submit"
                          IN /\ submitError' = error
                             /\ isSubmitting' = FALSE
                             /\ sub' = [sub EXCEPT ![h] =
                                          [called EXCEPT
                                             !.st = "settled",
                                             !.calls = IF formOpt.transform = "throws"
                                                       THEN <<>>
                                                       ELSE <<SubmitValues(values)>>,
                                             !.result = Failure("error", error),
                                             !.submitting = FALSE,
                                             !.stored = error]]
                     ELSE /\ submitError' = NoError
                          /\ isSubmitting' = TRUE
                          /\ sub' = [sub EXCEPT ![h] =
                                       [called EXCEPT !.st = "awaiting",
                                                      !.calls = <<SubmitValues(values)>>]]
    /\ UNCHANGED <<coreVars, moreVars, httpVars, wsVars, queueVars, validated, formOpt, values>>

\* the promise onSubmit returned settles and handleSubmit resumes
OnSubmitSettles(h) ==
    /\ sub[h].st = "awaiting"
    /\ isSubmitting' = FALSE
    /\ IF sub[h].on = "resolves"
       THEN /\ IF formOpt.resetOnSubmit
               THEN /\ values' = formOpt.initialValues
                    /\ errors' = NoErr
                    /\ submitError' = NoError
               ELSE UNCHANGED <<values, errors, submitError>>
            /\ sub' = [sub EXCEPT ![h].st = "settled", ![h].result = Success,
                                  ![h].submitting = FALSE, ![h].stored = submitError']
       ELSE /\ submitError' = "E_submit"
            /\ sub' = [sub EXCEPT ![h].st = "settled",
                                  ![h].result = Failure("error", "E_submit"),
                                  ![h].submitting = FALSE, ![h].stored = "E_submit"]
            /\ UNCHANGED <<values, errors>>
    /\ UNCHANGED <<coreVars, moreVars, httpVars, wsVars, queueVars, validated, formOpt, submitCount>>

NextForm ==
    \/ \E o \in FormOptions : UseForm(o)
    \/ \E v \in FieldValues : SetValue(v)
    \/ ValidateCall
    \/ \E b \in OnSubmits : HandleSubmit(b)
    \/ \E h \in Subs : OnSubmitSettles(h)

(***************************************************************************)
(* createQueue(concurrency): add, process and clear.  A task's fn either   *)
(* returns a promise that the host settles later, or throws at once.       *)
(***************************************************************************)
MaxConcurrency == 2
TaskOrder == <<"t1", "t2", "t3", "t4">>     \* the tasks, in the order add() is called
Tasks == {TaskOrder[i] : i \in 1..Len(TaskOrder)}
Fns == {"async", "throws"}

QueueInit ==
    /\ concurrency = 0                       \* 0: createQueue not called yet
    /\ queue = <<>>
    /\ running = 0
    /\ task = [t \in Tasks |-> [st |-> "new", fn |-> "async"]]
    /\ started = <<>>

QueueState == [queue |-> queue, running |-> running, task |-> task, started |-> started]

AtCapacityOffByOne(S) == S.running > concurrency

\* running >= concurrency
AtCapacity(S) == S.running >= concurrency

\* process(): start the head of the queue unless at capacity; a fn that throws
\* at once is rejected in the same call, and the finally block calls process()
RECURSIVE Process(_)
Process(S) ==
    IF AtCapacity(S) \/ S.queue = <<>> THEN S
    ELSE LET t == Head(S.queue)
             taken == [S EXCEPT !.running = @ + 1, !.queue = Tail(@),
                                !.started = Append(@, t)]
         IN IF S.task[t].fn = "throws"
            THEN Process([taken EXCEPT !.running = @ - 1, !.task[t].st = "done"])
            ELSE [taken EXCEPT !.task[t].st = "running"]

SetQueueState(S) ==
    /\ queue' = S.queue
    /\ running' = S.running
    /\ task' = S.task
    /\ started' = S.started

CreateQueue(c) ==
    /\ concurrency = 0
    /\ concurrency' = c
    /\ UNCHANGED <<coreVars, moreVars, httpVars, wsVars, formVars, queue, running, task, started>>

NextTask == CHOOSE i \in 1..Len(TaskOrder) + 1 :
               /\ \A j \in 1..(i - 1) : task[TaskOrder[j]].st # "new"
               /\ i <= Len(TaskOrder) => task[TaskOrder[i]].st = "new"

\* add(fn): queue.push({fn, resolve, reject}); process()
Add(f) ==
    /\ concurrency > 0
    /\ NextTask <= Len(TaskOrder)
    /\ LET t == TaskOrder[NextTask]
       IN SetQueueState(Process([QueueState EXCEPT
                                   !.queue = Append(@, t),
                                   !.task[t] = [st |-> "queued", fn |-> f]]))
    /\ UNCHANGED <<coreVars, moreVars, httpVars, wsVars, formVars, concurrency>>

\* the promise fn() returned settles (resolved or rejected)
FnSettles(t) ==
    /\ task[t].st = "running"
    /\ task' = [task EXCEPT ![t].st = "settled"]
    /\ UNCHANGED <<coreVars, moreVars, httpVars, wsVars, formVars, concurrency, queue, running,
                   started>>

\* process() resumes after `await fn()`: resolve or reject, running--, process()
Resume(t) ==
    /\ task[t].st = "settled"
    /\ SetQueueState(Process([QueueState EXCEPT !.running = @ - 1,
                                                !.task[t].st = "done"]))
    /\ UNCHANGED <<coreVars, moreVars, httpVars, wsVars, formVars, concurrency>>

\* clear(): queue.length = 0
Clear ==
    /\ concurrency > 0
    /\ queue # <<>>
    /\ queue' = <<>>
    /\ task' = [t \in Tasks |-> IF task[t].st = "queued"
                                THEN [task[t] EXCEPT !.st = "cleared"] ELSE task[t]]
    /\ UNCHANGED <<coreVars, moreVars, httpVars, wsVars, formVars, concurrency, running, started>>

NextQueue ==
    \/ \E c \in 1..MaxConcurrency : CreateQueue(c)
    \/ \E f \in Fns : Add(f)
    \/ \E t \in Tasks : FnSettles(t)
    \/ \E t \in Tasks : Resume(t)
    \/ Clear

(***************************************************************************)
(* The interceptors of the HTTP client: use, eject and clear on the two    *)
(* module-level arrays.  Every use() call registers a function of its own. *)
(***************************************************************************)
Kinds == {"request", "response"}
HandlerOrder == <<"f1", "f2", "f3">>
Handlers == {HandlerOrder[i] : i \in 1..Len(HandlerOrder)}
\* what usedId holds for a function no use() call was given (no array index)
NoId == 0 - 1

InterceptInit ==
    /\ requestInterceptors = <<>>
    /\ responseInterceptors = <<>>
    /\ usedId = [k \in Kinds |-> [f \in Handlers |-> NoId]]
    /\ lastEject = [kind |-> "request", id |-> NoId, before |-> <<>>]

Registered(kind) == IF kind = "request" THEN requestInterceptors ELSE responseInterceptors

SetRegistered(kind, list) ==
    IF kind = "request"
    THEN requestInterceptors' = list /\ UNCHANGED responseInterceptors
    ELSE responseInterceptors' = list /\ UNCHANGED requestInterceptors

\* array.splice(id, 1): remove the element at index id (0-based), if there is one
Splice(list, id) ==
    IF id < Len(list)
    THEN SubSeq(list, 1, id) \o SubSeq(list, id + 2, Len(list))
    ELSE list

NextHandler(kind) ==
    CHOOSE i \in 1..Len(HandlerOrder) + 1 :
       /\ \A j \in 1..(i - 1) : usedId[kind][HandlerOrder[j]] # NoId
       /\ i <= Len(HandlerOrder) => usedId[kind][HandlerOrder[i]] = NoId

\* use(fulfilled, rejected): const id = array.length; array.push(...); return id
Use(kind) ==
    /\ NextHandler(kind) <= Len(HandlerOrder)
    /\ LET f == HandlerOrder[NextHandler(kind)]
       IN  /\ usedId' = [usedId EXCEPT ![kind][f] = Len(Registered(kind))]
           /\ SetRegistered(kind, Append(Registered(kind), f))
    /\ lastEject' = [lastEject EXCEPT !.id = NoId]
    /\ UNCHANGED <<coreVars, httpVars, wsVars, formVars, queueVars, pollVars>>

\* eject(id), for an id some use() call of this kind has returned
Eject(kind, id) ==
    /\ \E f \in Handlers : usedId[kind][f] = id
    /\ SetRegistered(kind, Splice(Registered(kind), id))
    /\ lastEject' = [kind |-> kind, id |-> id, before |-> Registered(kind)]
    /\ UNCHANGED <<coreVars, httpVars, wsVars, formVars, queueVars, pollVars, usedId>>

\* clear(): array.length = 0
ClearInterceptors(kind) ==
    /\ Registered(kind) # <<>>
    /\ SetRegistered(kind, <<>>)
    /\ lastEject' = [lastEject EXCEPT !.id = NoId]
    /\ UNCHANGED <<coreVars, httpVars, wsVars, formVars, queueVars, pollVars, usedId>>

NextIntercept ==
    \/ \E k \in Kinds : Use(k)
    \/ \E k \in Kinds, id \in 0..(Len(HandlerOrder) - 1) : Eject(k, id)
    \/ \E k \in Kinds : ClearInterceptors(k)

(***************************************************************************)
(* usePolling: start, stop, toggle, the poll chain and its timers.  A poll *)
(* call awaits fetchState.execute(); the timer it sets is named after it.  *)
(***************************************************************************)
PollOrder == <<"p1", "p2", "p3", "p4">>
Polls == {PollOrder[i] : i \in 1..Len(PollOrder)}
NoTimer == "null"

PollInit ==
    /\ isPolling = FALSE
    /\ timeoutId = NoTimer
    /\ pollTimers = {}
    /\ poll = [p \in Polls |-> "none"]
    /\ pollh = [stopped |-> FALSE, startedAfterStop |-> FALSE]

NextPoll == CHOOSE i \in 1..Len(PollOrder) + 1 :
               /\ \A j \in 1..(i - 1) : poll[PollOrder[j]] # "none"
               /\ i <= Len(PollOrder) => poll[PollOrder[i]] = "none"
CanPoll == NextPoll <= Len(PollOrder)

\* poll() up to its await: if (!isPolling.value) return; await fetchState.execute()
PollBody(polling, h) ==
    IF ~polling THEN poll' = poll /\ pollh' = h
    ELSE /\ poll' = [poll EXCEPT ![PollOrder[NextPoll]] = "awaiting"]
         /\ pollh' = [h EXCEPT !.startedAfterStop = @ \/ h.stopped]

\* start(): if (isPolling.value) return; isPolling.value = true; poll()
PollingStart ==
    /\ CanPoll
    /\ ~isPolling
    /\ isPolling' = TRUE
    /\ PollBody(TRUE, [pollh EXCEPT !.stopped = FALSE])
    /\ UNCHANGED <<coreVars, httpVars, wsVars, formVars, queueVars, interceptVars,
                   timeoutId, pollTimers>>

\* stop()
PollingStop ==
    /\ isPolling' = FALSE
    /\ timeoutId' = NoTimer
    /\ pollTimers' = pollTimers \ {timeoutId}
    /\ pollh' = [pollh EXCEPT !.stopped = TRUE]
    /\ UNCHANGED <<coreVars, httpVars, wsVars, formVars, queueVars, interceptVars, poll>>

\* toggle()
PollingToggle == IF isPolling THEN PollingStop ELSE PollingStart

\* execute() has returned and poll resumes: if (isPolling.value) timeoutId = setTimeout(...)
ExecuteReturns(p) ==
    /\ poll[p] = "awaiting"
    /\ poll' = [poll EXCEPT ![p] = "done"]
    /\ IF isPolling
       THEN timeoutId' = p /\ pollTimers' = pollTimers \cup {p}
       ELSE UNCHANGED <<timeoutId, pollTimers>>
    /\ UNCHANGED <<coreVars, httpVars, wsVars, formVars, queueVars, interceptVars,
                   isPolling, pollh>>

\* the timer a poll set fires: poll()
PollTimerFires(t) ==
    /\ t \in pollTimers
    /\ isPolling => CanPoll
    /\ pollTimers' = pollTimers \ {t}
    /\ PollBody(isPolling, pollh)
    /\ UNCHANGED <<coreVars, httpVars, wsVars, formVars, queueVars, interceptVars,
                   isPolling, timeoutId>>

NextPolling ==
    \/ PollingStart
    \/ PollingStop
    \/ PollingToggle
    \/ \E p \in Polls : ExecuteReturns(p)
    \/ \E t \in Polls : PollTimerFires(t)

(***************************************************************************)
(* The engine's functions as state transformers.  G bundles what they      *)
(* change: tm (targetMap), dp (effectFn.deps), rm (reactiveMap),           *)
(* pt (the proxies), rt (history: proxies returned), val (the result).     *)
(***************************************************************************)
Bundle == [tm |-> targetMap, dp |-> deps, rm |-> reactiveMap, pt |-> proxyTarget,
           rt |-> returned, val |-> Undef]

\* track that leaves activeEffect.deps alone
TrackNoBackref(G, ae, t, key) ==
    IF ae = NoEffect THEN G
    ELSE [G EXCEPT !.tm[t].keys = SetAdd(@, key),
                   !.tm[t].dep[key] = SetAdd(@, ae)]

\* track(target, key)
Track(G, ae, t, key) ==
    IF ae = NoEffect THEN G
    ELSE LET depsMap == G.tm[t]
             dep == depsMap.dep[key]
         IN  IF Has(dep, ae)
             THEN [G EXCEPT !.tm[t].keys = SetAdd(@, key)]
             ELSE [G EXCEPT !.tm[t].keys = SetAdd(@, key),
                            !.tm[t].dep[key] = Append(@, ae),
                            !.dp[ae] = @ \cup {<<t, key>>}]

\* a run that keeps the dependency edges of the runs before it
CleanupNone(G, e) == G
\* cleanup(effectFn)
Cleanup(G, e) ==
    [G EXCEPT !.tm = [t \in Targets |->
                        [keys |-> G.tm[t].keys,
                         dep |-> [key \in AllKeys |->
                                    IF <<t, key>> \in G.dp[e]
                                    THEN SetDelete(G.tm[t].dep[key], e)
                                    ELSE G.tm[t].dep[key]]]],
              !.dp[e] = {}]

\* reactive() that does not consult the cache of proxies
ReactiveNoCache(G, v) ==
    IF ~IsObject(v) THEN [G EXCEPT !.val = v]
    ELSE IF v.k = "proxy"
         THEN [G EXCEPT !.val = v, !.rt[G.pt[v.n]] = @ \cup {v.n}]
    ELSE LET pid == Len(G.pt) + 1
         IN  [G EXCEPT !.val = Px(pid), !.pt = Append(@, v.o), !.rm[v.o] = pid,
                       !.rt[v.o] = @ \cup {pid}]

\* reactive(target)
Reactive(G, v) ==
    IF ~IsObject(v) THEN [G EXCEPT !.val = v]
    ELSE IF v.k = "proxy"
         THEN [G EXCEPT !.val = v, !.rt[G.pt[v.n]] = @ \cup {v.n}]
    ELSE IF G.rm[v.o] # 0
         THEN [G EXCEPT !.val = Px(G.rm[v.o]), !.rt[v.o] = @ \cup {G.rm[v.o]}]
    ELSE LET pid == Len(G.pt) + 1
         IN  [G EXCEPT !.val = Px(pid), !.pt = Append(@, v.o), !.rm[v.o] = pid,
                       !.rt[v.o] = @ \cup {pid}]

\* Reflect.get(target, key) on a raw object
RawGet(h, r, key) ==
    IF h[r].arr /\ key = "length" THEN Num(h[r].len)
    ELSE IF key \in h[r].own THEN h[r].val[key]
    ELSE Undef

\* reactiveHandlers.get; a property of a primitive is undefined
ProxyGet(G, h, ae, base, key) ==
    IF base.k # "proxy" THEN [G EXCEPT !.val = Undef]
    ELSE LET target == G.pt[base.n]
             result == RawGet(h, target, key)
         IN  Reactive(Track(G, ae, target, key), result)

\* c.k1.k2...: one get trap per key
RECURSIVE GetPath(_, _, _, _, _)
GetPath(G, h, ae, base, path) ==
    IF path = <<>> THEN [G EXCEPT !.val = base]
    ELSE LET G1 == ProxyGet(G, h, ae, base, Head(path))
         IN  GetPath(G1, h, ae, G1.val, Tail(path))

\* the raw targets whose keys a get of root.path tracks, with the keys
RECURSIVE PathReads(_, _, _, _)
PathReads(G, h, base, path) ==
    IF path = <<>> \/ base.k # "proxy" THEN {}
    ELSE LET G1 == ProxyGet(G, h, NoEffect, base, Head(path))
         IN  {<<G.pt[base.n], Head(path)>>} \cup PathReads(G1, h, G1.val, Tail(path))

\* Object.keys order of the model's objects: index keys ascending, then names
KeyOrder == <<"0", "1", "2", "3", "a", "b", "n">>
OwnKeys(h, r) ==
    SelectSeq(KeyOrder, LAMBDA key : key \in h[r].own)
\* the indices forEach visits: 0 .. length - 1
IndicesBelow(len) ==
    SelectSeq(KeyOrder, LAMBDA key : KeyNum(key) >= 0 /\ KeyNum(key) < len)

\* a traversal that stops at the container's own keys
TraverseShallow(G, h, ae, v, seen) ==
    [G |-> IF v.k = "proxy" THEN Track(G, ae, G.pt[v.n], "iterate") ELSE G,
     seen |-> seen]
\* traverse(value, seen) on what the get trap hands out; the result is the
\* bundle after the tracking it causes and the set `seen`
RECURSIVE Traverse(_, _, _, _, _)
RECURSIVE TraverseKeys(_, _, _, _, _, _)
TraverseKeys(G, h, ae, base, keys, seen) ==
    IF keys = <<>> THEN [G |-> G, seen |-> seen]
    ELSE LET target == G.pt[base.n]
             key == Head(keys)
             \* forEach asks `key in array` first: the has trap tracks the key
             G1 == IF h[target].arr THEN Track(G, ae, target, key) ELSE G
             G2 == ProxyGet(G1, h, ae, base, key)
             r == Traverse(G2, h, ae, G2.val, seen)
         IN  IF key \in h[target].own
             THEN TraverseKeys(r.G, h, ae, base, Tail(keys), r.seen)
             ELSE TraverseKeys(G1, h, ae, base, Tail(keys), seen)
Traverse(G, h, ae, v, seen) ==
    IF v.k # "proxy" \/ v.n \in seen THEN [G |-> G, seen |-> seen]
    ELSE LET target == G.pt[v.n]
         IN  IF h[target].arr
             \* value.forEach(...): get 'forEach', get 'length', then the elements
             THEN TraverseKeys(Track(Track(G, ae, target, "forEach"), ae, target, "length"),
                               h, ae, v, IndicesBelow(h[target].len), seen \cup {v.n})
             \* Object.keys(value): the ownKeys trap tracks the iterate key
             ELSE TraverseKeys(Track(G, ae, target, "iterate"),
                               h, ae, v, OwnKeys(h, target), seen \cup {v.n})

\* reactiveHandlers.ownKeys
OwnKeysTrap(G, h, ae, base) ==
    LET target == G.pt[base.n]
    IN  Track(G, ae, target, IF h[target].arr THEN "length" ELSE "iterate")

\* for (const v of array): get Symbol.iterator, then length and an element per step
RECURSIVE IterateFrom(_, _, _, _, _)
IterateFrom(G, h, ae, base, keys) ==
    LET G1 == ProxyGet(G, h, ae, base, "length")
    IN  IF keys = <<>> THEN G1
        ELSE IterateFrom(ProxyGet(G1, h, ae, base, Head(keys)), h, ae, base, Tail(keys))
Iterate(G, h, ae, base) ==
    IterateFrom(ProxyGet(G, h, ae, base, "@@iterator"), h, ae, base,
                IndicesBelow(h[G.pt[base.n]].len))

\* the container the user holds for a root object: c = reactive(root)
RootProxy(root) == Px(reactiveMap[root])

IsArray(h, t) == t \in Raws /\ h[t].arr

\* addEffects without the test effect !== activeEffect
RECURSIVE AddEffectsNoSkip(_, _, _)
AddEffectsNoSkip(acc, dep, ae) ==
    IF dep = <<>> THEN acc
    ELSE AddEffectsNoSkip(IF Head(dep) \in Computeds
                          THEN [acc EXCEPT !.c = SetAdd(@, Head(dep))]
                          ELSE [acc EXCEPT !.p = SetAdd(@, Head(dep))],
                          Tail(dep), ae)
\* addEffects(dep) of trigger: acc.c is computedEffects, acc.p is effects
RECURSIVE AddEffects(_, _, _)
AddEffects(acc, dep, ae) ==
    IF dep = <<>> THEN acc
    ELSE LET e == Head(dep)
             nxt == IF e = ae THEN acc
                    ELSE IF e \in Computeds THEN [acc EXCEPT !.c = SetAdd(@, e)]
                    ELSE [acc EXCEPT !.p = SetAdd(@, e)]
         IN  AddEffects(nxt, Tail(dep), ae)

\* k >= target.length for a depsMap key k
KeyAtOrBeyond(key, len) == KeyNum(key) >= 0 /\ KeyNum(key) >= len

\* depsMap.forEach((dep, k) => { if (k >= target.length) addEffects(dep) })
RECURSIVE AddBeyond(_, _, _, _, _)
AddBeyond(acc, depsMap, keys, len, ae) ==
    IF keys = <<>> THEN acc
    ELSE AddBeyond(IF KeyAtOrBeyond(Head(keys), len)
                   THEN AddEffects(acc, depsMap.dep[Head(keys)], ae) ELSE acc,
                   depsMap, Tail(keys), len, ae)

\* trigger(target, key, type): the effects it will notify, computed ones first
TriggerList(tm, h, ae, t, key, type) ==
    LET depsMap == tm[t]
        s1 == AddEffects([c |-> <<>>, p |-> <<>>], depsMap.dep[key], ae)
        s2 == IF type = "add" /\ IsArray(h, t)
              THEN AddEffects(s1, depsMap.dep["length"], ae) ELSE s1
        s3 == IF key = "length" /\ IsArray(h, t)
              THEN AddBeyond(s2, depsMap, depsMap.keys, h[t].len, ae) ELSE s2
    IN  s3.c \o s3.p

\* trigger(): `k >= target.length` throws a TypeError when k is a Symbol
TriggerThrows(tm, h, t, key) ==
    /\ key = "length" /\ IsArray(h, t)
    /\ \E i \in 1..Len(tm[t].keys) : tm[t].keys[i] \in SymbolKeys

\* Reflect.set(target, key, value) on a raw object (arrays keep their length)
RawSet(h, r, key, v) ==
    IF h[r].arr /\ key = "length"
    THEN [h EXCEPT ![r].len = v.n,
                   ![r].own = {k2 \in @ : ~KeyAtOrBeyond(k2, v.n)}]
    ELSE [h EXCEPT ![r].own = @ \cup {key},
                   ![r].val[key] = v,
                   ![r].len = IF h[r].arr /\ KeyNum(key) >= @ THEN KeyNum(key) + 1 ELSE @]

\* hadKey of reactiveHandlers.set
HadKey(h, r, key) ==
    IF h[r].arr THEN KeyNum(key) >= 0 /\ KeyNum(key) < h[r].len
    ELSE key \in h[r].own

\* the NaN guard written with && instead of ||
SetTriggerTypeBothNotNaN(hadKey, value, old) ==
    IF ~hadKey THEN "add"
    ELSE IF StrictNeq(value, old) /\ (~IsNaN(value) /\ ~IsNaN(old)) THEN "set"
    ELSE "none"

\* the type reactiveHandlers.set triggers with ("none": no trigger)
SetTriggerType(hadKey, value, old) ==
    IF ~hadKey THEN "add"
    ELSE IF StrictNeq(value, old) /\ (~IsNaN(value) \/ ~IsNaN(old)) THEN "set"
    ELSE "none"

\* whether the ref setter triggers
RefChanged(newValue, value) == StrictNeq(newValue, value)

\* a firing condition without the clause for object results
JobFiresNoObject(w, newValue, old) ==
    Deep(w) \/ StrictNeq(newValue, old)
\* the firing condition of a watcher's job
JobFires(w, newValue, old) ==
    Deep(w) \/ StrictNeq(newValue, old) \/ IsObject(newValue)

(***************************************************************************)
(* What the claims compare the engine with: values as the user sees them.  *)
(***************************************************************************)
\* toRaw
ToRawIn(pt, v) == IF v.k = "proxy" THEN Raw(pt[v.n]) ELSE v
ToRawV(v) == ToRawIn(proxyTarget, v)
\* strict equality with NaN equal to NaN, a container equal to its object
SameValue(a, b) == ToRawV(a) = ToRawV(b)

RECURSIVE RawPath(_, _, _)
RawPath(h, v, path) ==
    IF path = <<>> THEN v
    ELSE IF ~IsObject(v) THEN Undef
    ELSE RawPath(h, RawGet(h, ToRawV(v).o, Head(path)), Tail(path))

\* the result of a getter on the current upstream values, computed afresh
RECURSIVE EvalFrom(_, _, _)
EvalFrom(prog, i, acc) ==
    IF i > Len(prog) THEN acc
    ELSE LET ins == prog[i]
             v == CASE ins.op = "cell" -> cellVal[ins.t]
                    [] ins.op = "get" -> RawPath(heap, Raw(ins.t), ins.path)
                    [] ins.op = "comp" -> EvalFrom(Prog(ins.t), 1, Num(0))
                    [] OTHER -> Num(0)
         IN  EvalFrom(prog, i + 1, JsAdd(acc, v))
Fresh(d) == EvalFrom(Prog(d), 1, Num(0))

(***************************************************************************)
(* The call stack.                                                         *)
(***************************************************************************)
Frame(k, e, pc, acc, q, wid) ==
    [k |-> k, e |-> e, pc |-> pc, acc |-> acc, q |-> q, wid |-> wid]
\* effectFn running fn(): the body of e at statement pc
RunFrame(e) == Frame("run", e, 1, IF e \in Plain THEN Undef ELSE Num(0), <<>>, 0)
\* trigger() notifying the effects of q, one after the other
TrigFrame(q) == Frame("trigger", NoEffect, 1, Undef, q, 0)
\* computed's `get value` waiting for effectFn()
CgetFrame(d) == Frame("cget", d, 0, Undef, <<>>, 0)
\* watch's job waiting for effectFn(); wid: the write that scheduled it
JobFrame(w, wid) == Frame("job", w, 0, Undef, <<>>, wid)
\* watch() waiting for the first effectFn()
WinitFrame(w) == Frame("winit", w, 0, Undef, <<>>, 0)
\* effect() waiting for the first effectFn()
EcreateFrame(e) == Frame("ecreate", e, 0, Undef, <<>>, 0)
\* batch() running fn(): the statements q of fn, at statement pc
BatchFrame(q) == Frame("batch", NoEffect, 1, Undef, q, 0)
\* an exception in flight: it unwinds the frames below it
ThrowFrame == Frame("throw", NoEffect, 0, Undef, <<>>, 0)

\* the write whose trigger is running
CurrentWrite == Len(writes)
\* an entry of the log of what the user's callbacks and the host saw
Event(t, w, wid, nv, ov) == [t |-> t, w |-> w, wid |-> wid, nv |-> nv, ov |-> ov]

Top == stack[Len(stack)]
Pop(s) == SubSeq(s, 1, Len(s) - 1)
Idle == stack = <<>>
TopIs(kind) == stack # <<>> /\ Top.k = kind
\* the statement the running body is at
AtInstr(op) ==
    /\ TopIs("run")
    /\ Top.pc <= Len(Prog(Top.e))
    /\ Prog(Top.e)[Top.pc].op = op
Instr == Prog(Top.e)[Top.pc]
\* the running body after a read that returned v
Advance(f, v) ==
    [f EXCEPT !.pc = @ + 1, !.acc = IF f.e \in Plain THEN Undef ELSE JsAdd(@, v)]
PushTrigger(stk, q) == IF q = <<>> THEN stk ELSE Append(stk, TrigFrame(q))

ApplyBundle(G) ==
    /\ targetMap' = G.tm
    /\ deps' = G.dp
    /\ reactiveMap' = G.rm
    /\ proxyTarget' = G.pt
    /\ returned' = G.rt

\* an effectFn that returns at once when the effect has been stopped
EnterRunIfActive(e, below, baseRuns) ==
    LET stopped == created[e] /\ ~active[e]
    IN  /\ LET G == IF stopped THEN Bundle ELSE Cleanup(Bundle, e)
           IN  targetMap' = G.tm /\ deps' = G.dp
        /\ activeEffect' = IF stopped THEN activeEffect ELSE e
        /\ effectStack' = IF stopped THEN effectStack ELSE Append(effectStack, e)
        /\ stack' = IF stopped THEN below ELSE Append(below, RunFrame(e))
        /\ runs' = IF stopped THEN baseRuns ELSE [baseRuns EXCEPT ![e] = @ + 1]
        /\ readSet' = IF stopped THEN readSet ELSE [readSet EXCEPT ![e] = {}]
        /\ afterStop' = afterStop
\* effectFn(): cleanup, become the active effect, start the body
EnterRun(e, below, baseRuns) ==
    /\ LET G == Cleanup(Bundle, e)
       IN  targetMap' = G.tm /\ deps' = G.dp
    /\ activeEffect' = e
    /\ effectStack' = Append(effectStack, e)
    /\ stack' = Append(below, RunFrame(e))
    /\ runs' = [baseRuns EXCEPT ![e] = @ + 1]
    /\ readSet' = [readSet EXCEPT ![e] = {}]
    /\ afterStop' = IF e \in Plain /\ created[e] /\ ~active[e]
                    THEN afterStop \cup {e} ELSE afterStop

(***************************************************************************)
(* The state after the module is loaded and the user program has built its *)
(* data: x = ref(x0), o = {a: {b: 1}, n: 1}, arr = [1, 2],                 *)
(* t = {a: {b: [tn]}} with tn = {n: 1, a: t} (a cycle), the containers     *)
(* reactive(o), reactive(arr) and reactive(t), and the (lazy) computeds.   *)
(***************************************************************************)
NoVals == [key \in AllKeys |-> Undef]
NoOp ==
    [kind |-> "none", t |-> "", key |-> "", v |-> Undef, prev |-> Undef,
     same |-> FALSE, existing |-> FALSE, readers |-> {}, hadDeps |-> FALSE,
     reads |-> [e \in Plain |-> {}], len |-> 0, threw |-> FALSE, wasDirty |-> FALSE]

Init ==
    /\ sc \in 1..Len(Scenarios)
    /\ cellVal = [c \in Cells |-> Scenarios[sc].x0]
    /\ heap = [r \in Raws |->
                 CASE r = "o" -> [arr |-> FALSE, own |-> {"a", "n"}, len |-> 0,
                                  val |-> [NoVals EXCEPT !["a"] = Raw("oa"), !["n"] = Num(1)]]
                   [] r = "oa" -> [arr |-> FALSE, own |-> {"b"}, len |-> 0,
                                   val |-> [NoVals EXCEPT !["b"] = Num(1)]]
                   [] r = "arr" -> [arr |-> TRUE, own |-> {"0", "1"}, len |-> 2,
                                    val |-> [NoVals EXCEPT !["0"] = Num(1), !["1"] = Num(2)]]
                   [] r = "t" -> [arr |-> FALSE, own |-> {"a"}, len |-> 0,
                                  val |-> [NoVals EXCEPT !["a"] = Raw("ta")]]
                   [] r = "ta" -> [arr |-> FALSE, own |-> {"b"}, len |-> 0,
                                   val |-> [NoVals EXCEPT !["b"] = Raw("tarr")]]
                   [] r = "tarr" -> [arr |-> TRUE, own |-> {"0"}, len |-> 1,
                                     val |-> [NoVals EXCEPT !["0"] = Raw("tn")]]
                   [] OTHER -> [arr |-> FALSE, own |-> {"n", "a"}, len |-> 0,
                                val |-> [NoVals EXCEPT !["n"] = Num(1), !["a"] = Raw("t")]]]
    /\ proxyTarget = <<"o", "arr", "t">>
    /\ reactiveMap = [r \in Raws |-> CASE r = "o" -> 1 [] r = "arr" -> 2 [] r = "t" -> 3
                                        [] OTHER -> 0]
    /\ targetMap = [t \in Targets |-> [keys |-> <<>>, dep |-> [key \in AllKeys |-> <<>>]]]
    /\ deps = [e \in Effects |-> {}]
    /\ active = [e \in Effects |-> e \in Computeds]
    /\ activeEffect = NoEffect
    /\ effectStack = <<>>
    /\ dirty = [d \in Computeds |-> TRUE]
    /\ compVal = [d \in Computeds |-> Undef]
    /\ oldValue = [w \in Watchers |-> Undef]
    /\ wcleanup = [w \in Watchers |-> 0]
    /\ isBatching = FALSE
    /\ batchQueue = <<>>
    /\ microQueue = <<>>
    /\ macroQueue = <<>>
    /\ stack = <<>>
    /\ ret = Undef
    /\ created = [e \in Effects |-> FALSE]
    /\ ops = 0
    /\ lastOp = NoOp
    /\ runs = [e \in Effects |-> 0]
    /\ notified = 0
    /\ readSet = [e \in Effects |-> {}]
    /\ afterStop = {}
    /\ returned = [r \in Raws |-> CASE r = "o" -> {1} [] r = "arr" -> {2} [] r = "t" -> {3}
                                     [] OTHER -> {}]
    /\ observed = [got |-> Undef, fresh |-> Undef]
    /\ getterRuns = [d \in Computeds |-> 0]
    /\ writes = <<>>
    /\ evlog = <<>>
    /\ HttpInit
    /\ WsInit
    /\ FormInit
    /\ QueueInit
    /\ InterceptInit
    /\ PollInit

NoRuns == [e \in Effects |-> 0]

(***************************************************************************)
(* Construction: effect(fn) and watch(getter, cb, {flush}), in the order   *)
(* of the user program, before the main script's statements.               *)
(***************************************************************************)
NextSetup(e) ==
    LET setup == Scenarios[sc].setup
    IN  \E i \in 1..Len(setup) :
            /\ setup[i] = e
            /\ ~created[e]
            /\ \A j \in 1..(i - 1) : created[setup[j]]

\* effect(fn, {}): effectFn.active = true; effectFn()
EffectCreate(e) ==
    /\ Idle /\ ops = 0 /\ e \in Plain /\ NextSetup(e)
    /\ active' = [active EXCEPT ![e] = TRUE]
    /\ EnterRun(e, <<EcreateFrame(e)>>, NoRuns)
    /\ notified' = 0
    /\ lastOp' = NoOp
    /\ UNCHANGED <<extVars, cellVal, heap, reactiveMap, proxyTarget, dirty, compVal, oldValue,
                   microQueue, macroQueue, ret, sc, libVars, created, ops, returned, observed,
                   getterRuns, writes, evlog>>

\* effect() returns effectFn
EffectCreateReturn ==
    /\ TopIs("ecreate")
    /\ created' = [created EXCEPT ![Top.e] = TRUE]
    /\ stack' = Pop(stack)
    /\ UNCHANGED <<engineVars, ret, sc, libVars, ops, histVars>>

\* watch(): effectFn = effect(getter, {lazy, scheduler});
\* if (options.immediate) job() else oldValue = effectFn()
WatchCreate(w) ==
    /\ Idle /\ ops = 0 /\ w \in Watchers /\ NextSetup(w)
    /\ active' = [active EXCEPT ![w] = TRUE]
    /\ EnterRun(w, IF Immediate(w) THEN <<WinitFrame(w), JobFrame(w, 0)>>
                   ELSE <<WinitFrame(w)>>, NoRuns)
    /\ notified' = 0
    /\ lastOp' = NoOp
    /\ UNCHANGED <<extVars, cellVal, heap, reactiveMap, proxyTarget, dirty, compVal, oldValue,
                   microQueue, macroQueue, ret, sc, libVars, created, ops, returned, observed,
                   getterRuns, writes, evlog>>

\* oldValue = <the getter's result>; watch() returns the stop function
WatchCreateReturn ==
    /\ TopIs("winit")
    /\ oldValue' = IF Immediate(Top.e) THEN oldValue ELSE [oldValue EXCEPT ![Top.e] = ret]
    /\ created' = [created EXCEPT ![Top.e] = TRUE]
    /\ stack' = Pop(stack)
    /\ UNCHANGED <<extVars, cellVal, heap, reactiveMap, proxyTarget, targetMap, deps, active,
                   activeEffect, effectStack, dirty, compVal, microQueue, macroQueue,
                   ret, sc, libVars, ops, histVars>>

(***************************************************************************)
(* The statements of a running body.                                       *)
(***************************************************************************)
\* x.value read: track(refObject, 'value'); return value
StepReadCell ==
    /\ AtInstr("cell")
    /\ LET c == Instr.t
           G == Track(Bundle, activeEffect, c, "value")
       IN  /\ ApplyBundle(G)
           /\ stack' = [stack EXCEPT ![Len(stack)] = Advance(@, cellVal[c])]
           /\ readSet' = [readSet EXCEPT ![Top.e] = @ \cup {<<c, "value">>}]
    /\ UNCHANGED <<extVars, cellVal, heap, active, activeEffect, effectStack, dirty, compVal,
                   oldValue, microQueue, macroQueue, ret, sc, libVars, created, ops, lastOp,
                   runs, notified, afterStop, observed, getterRuns, writes, evlog>>

\* c.k1.k2 read: a get trap per key
StepGet ==
    /\ AtInstr("get")
    /\ LET G == GetPath(Bundle, heap, activeEffect, RootProxy(Instr.t), Instr.path)
       IN  /\ ApplyBundle(G)
           /\ stack' = [stack EXCEPT ![Len(stack)] = Advance(@, G.val)]
           /\ readSet' = [readSet EXCEPT ![Top.e] =
                             @ \cup PathReads(Bundle, heap, RootProxy(Instr.t), Instr.path)]
    /\ UNCHANGED <<extVars, cellVal, heap, active, activeEffect, effectStack, dirty, compVal,
                   oldValue, microQueue, macroQueue, ret, sc, libVars, created, ops, lastOp,
                   runs, notified, afterStop, observed, getterRuns, writes, evlog>>

\* what a plain effect saw when it read computed d, and what d is afresh
Observe(reader, d, got) ==
    IF reader \in Plain THEN [got |-> got, fresh |-> Fresh(d)] ELSE observed

\* d.value read while d is not dirty: track(computedRef, 'value'); return value
StepReadCompClean ==
    /\ AtInstr("comp")
    /\ ~dirty[Instr.t]
    /\ LET d == Instr.t
           G == Track(Bundle, activeEffect, d, "value")
       IN  /\ ApplyBundle(G)
           /\ stack' = [stack EXCEPT ![Len(stack)] = Advance(@, compVal[d])]
           /\ readSet' = [readSet EXCEPT ![Top.e] = @ \cup {<<d, "value">>}]
           /\ observed' = Observe(Top.e, d, compVal[d])
    /\ UNCHANGED <<extVars, cellVal, heap, active, activeEffect, effectStack, dirty, compVal,
                   oldValue, microQueue, macroQueue, ret, sc, libVars, created, ops, lastOp,
                   runs, notified, afterStop, getterRuns, writes, evlog>>

\* d.value read while d is dirty: value = effectFn() ...
StepReadCompDirty ==
    /\ AtInstr("comp")
    /\ dirty[Instr.t]
    /\ EnterRun(Instr.t, Append(stack, CgetFrame(Instr.t)), runs)
    /\ UNCHANGED <<extVars, cellVal, heap, reactiveMap, proxyTarget, active, dirty, compVal,
                   oldValue, microQueue, macroQueue, ret, sc, libVars, created, ops, lastOp,
                   notified, returned, observed, getterRuns, writes, evlog>>

\* stop(effectFn), called by a body on a handle it holds
StopEffect(G, e) == Cleanup(G, e)
StepStop ==
    /\ AtInstr("stop")
    /\ LET e == Instr.t
           doIt == created[e] /\ active[e]
           G == IF doIt THEN StopEffect(Bundle, e) ELSE Bundle
       IN  /\ ApplyBundle(G)
           /\ active' = IF doIt THEN [active EXCEPT ![e] = FALSE] ELSE active
           /\ stack' = [stack EXCEPT ![Len(stack)] = Advance(@, Undef)]
    /\ UNCHANGED <<extVars, cellVal, heap, activeEffect, effectStack, dirty, compVal,
                   oldValue, microQueue, macroQueue, ret, sc, libVars, created, ops, lastOp,
                   runs, notified, readSet, afterStop, observed, getterRuns, writes,
                   evlog>>

\* Object.keys(c): the ownKeys trap
StepKeys ==
    /\ AtInstr("keys")
    /\ LET base == RootProxy(Instr.t)
           G == OwnKeysTrap(Bundle, heap, activeEffect, base)
       IN  /\ ApplyBundle(G)
           /\ stack' = [stack EXCEPT ![Len(stack)] = Advance(@, Undef)]
           /\ readSet' = [readSet EXCEPT ![Top.e] = @ \cup G.dp[Top.e]]
    /\ UNCHANGED <<extVars, cellVal, heap, active, activeEffect, effectStack, dirty,
                   compVal, oldValue, microQueue, macroQueue, ret, sc, libVars, created, ops,
                   lastOp, runs, notified, afterStop, observed, getterRuns, writes,
                   evlog>>

\* for (const v of c) {}
StepIter ==
    /\ AtInstr("iter")
    /\ LET G == Iterate(Bundle, heap, activeEffect, RootProxy(Instr.t))
       IN  /\ ApplyBundle(G)
           /\ stack' = [stack EXCEPT ![Len(stack)] = Advance(@, Undef)]
           /\ readSet' = [readSet EXCEPT ![Top.e] = @ \cup G.dp[Top.e]]
    /\ UNCHANGED <<extVars, cellVal, heap, active, activeEffect, effectStack, dirty,
                   compVal, oldValue, microQueue, macroQueue, ret, sc, libVars, created, ops,
                   lastOp, runs, notified, afterStop, observed, getterRuns, writes,
                   evlog>>

\* () => traverse(source): tracks what it walks through and returns source
StepTraverse ==
    /\ AtInstr("traverse")
    /\ LET base == RootProxy(Instr.t)
           G == Traverse(Bundle, heap, activeEffect, base, {}).G
       IN  /\ ApplyBundle(G)
           /\ stack' = [stack EXCEPT ![Len(stack)].pc = @ + 1,
                                     ![Len(stack)].acc = base]
           /\ readSet' = [readSet EXCEPT ![Top.e] = @ \cup G.dp[Top.e]]
    /\ UNCHANGED <<extVars, cellVal, heap, active, activeEffect, effectStack, dirty,
                   compVal, oldValue, microQueue, macroQueue, ret, sc, libVars, created, ops,
                   lastOp, runs, notified, afterStop, observed, getterRuns, writes,
                   evlog>>

\* return x.value
StepRet ==
    /\ AtInstr("ret")
    /\ LET c == Instr.t
           G == Track(Bundle, activeEffect, c, "value")
       IN  /\ ApplyBundle(G)
           /\ stack' = [stack EXCEPT ![Len(stack)].pc = @ + 1,
                                     ![Len(stack)].acc = cellVal[c]]
           /\ readSet' = [readSet EXCEPT ![Top.e] = @ \cup {<<c, "value">>}]
    /\ UNCHANGED <<extVars, cellVal, heap, active, activeEffect, effectStack, dirty,
                   compVal, oldValue, microQueue, macroQueue, ret, sc, libVars, created, ops,
                   lastOp, runs, notified, afterStop, observed, getterRuns, writes,
                   evlog>>

\* the cell a body writes with x.value = c.path
CopyCell == "x"
\* x.value = c.path inside a body: the get traps, then the ref setter
StepCopy ==
    /\ AtInstr("copy")
    /\ LET c == CopyCell
           G == GetPath(Bundle, heap, activeEffect, RootProxy(Instr.t), Instr.path)
           v == G.val
           does == RefChanged(v, cellVal[c])
           q == TriggerList(G.tm, heap, activeEffect, c, "value", "set")
           after == [stack EXCEPT ![Len(stack)] = Advance(@, Undef)]
       IN  /\ ApplyBundle(G)
           /\ cellVal' = IF does THEN [cellVal EXCEPT ![c] = v] ELSE cellVal
           /\ stack' = IF does THEN PushTrigger(after, q) ELSE after
           /\ readSet' = [readSet EXCEPT ![Top.e] =
                             @ \cup PathReads(Bundle, heap, RootProxy(Instr.t), Instr.path)]
           /\ getterRuns' = [d \in Computeds |->
                                IF ~SameValue(v, cellVal[c]) /\ <<c, "value">> \in readSet[d]
                                THEN 0 ELSE getterRuns[d]]
    /\ UNCHANGED <<extVars, heap, active, activeEffect, effectStack, dirty, compVal,
                   oldValue, microQueue, macroQueue, ret, sc, libVars, created, ops, lastOp,
                   runs, notified, afterStop, observed, writes, evlog>>

\* c.key = SelfValue inside a body: reactiveHandlers.set
StepSetKey ==
    /\ AtInstr("setkey")
    /\ LET base == RootProxy(Instr.t)
           target == proxyTarget[base.n]
           key == Instr.path[1]
           old == RawGet(heap, target, key)
           h2 == RawSet(heap, target, key, SelfValue)
           type == SetTriggerType(HadKey(heap, target, key), SelfValue, old)
           q == TriggerList(targetMap, h2, activeEffect, target, key, type)
           after == [stack EXCEPT ![Len(stack)] = Advance(@, Undef)]
       IN  /\ heap' = h2
           /\ stack' = IF type = "none" THEN after
                        ELSE IF TriggerThrows(targetMap, h2, target, key)
                        THEN Append(after, ThrowFrame)
                        ELSE PushTrigger(after, q)
           /\ getterRuns' = [d \in Computeds |->
                                IF old # SelfValue /\ <<target, key>> \in readSet[d]
                                THEN 0 ELSE getterRuns[d]]
    /\ UNCHANGED <<extVars, cellVal, reactiveMap, proxyTarget, targetMap, deps, active,
                   activeEffect, effectStack, dirty, compVal, oldValue, microQueue,
                   macroQueue, ret, sc, libVars, created, ops, lastOp, runs, notified, readSet,
                   afterStop, returned, observed, writes, evlog>>

\* if (x.value === ThrowValue) throw new Error()
StepThrowIf ==
    /\ AtInstr("throwif")
    /\ LET c == Instr.t
           G == Track(Bundle, activeEffect, c, "value")
       IN  /\ ApplyBundle(G)
           /\ stack' = IF cellVal[c] = ThrowValue
                        THEN Append(stack, ThrowFrame)
                        ELSE [stack EXCEPT ![Len(stack)] = Advance(@, cellVal[c])]
           /\ readSet' = [readSet EXCEPT ![Top.e] = @ \cup {<<c, "value">>}]
           \* the log tells a throw under a microtask from one under the script
           /\ evlog' = IF cellVal[c] = ThrowValue
                        THEN Append(evlog, Event(IF stack[1].k = "job" THEN "mthrow"
                                                 ELSE "throw",
                                                 Top.e, CurrentWrite, Num(ops), Undef))
                        ELSE evlog
    /\ UNCHANGED <<extVars, cellVal, heap, active, activeEffect, effectStack, dirty,
                   compVal, oldValue, microQueue, macroQueue, ret, sc, libVars, created, ops,
                   lastOp, runs, notified, afterStop, observed, getterRuns, writes>>

\* if (x.value !== WhenValue) return
StepWhen ==
    /\ AtInstr("when")
    /\ LET c == Instr.t
           G == Track(Bundle, activeEffect, c, "value")
       IN  /\ ApplyBundle(G)
           /\ stack' = IF cellVal[c] = WhenValue
                        THEN [stack EXCEPT ![Len(stack)] = Advance(@, cellVal[c])]
                        ELSE [stack EXCEPT ![Len(stack)].pc = Len(Prog(Top.e)) + 1]
           /\ readSet' = [readSet EXCEPT ![Top.e] = @ \cup {<<c, "value">>}]
    /\ UNCHANGED <<extVars, cellVal, heap, active, activeEffect, effectStack, dirty,
                   compVal, oldValue, microQueue, macroQueue, ret, sc, libVars, created, ops,
                   lastOp, runs, notified, afterStop, observed, getterRuns, writes,
                   evlog>>

\* a finally block that forgets the outer effect
OuterEffectNone(es) == NoEffect
\* effectStack.pop(); activeEffect = effectStack[effectStack.length - 1]
OuterEffect(es) == IF Len(es) > 1 THEN es[Len(es) - 1] ELSE NoEffect

\* the body is done: finally { effectStack.pop(); activeEffect = <top> }
RunReturn ==
    /\ TopIs("run")
    /\ Top.pc > Len(Prog(Top.e))
    /\ effectStack' = Pop(effectStack)
    /\ activeEffect' = OuterEffect(effectStack)
    /\ ret' = Top.acc
    /\ stack' = Pop(stack)
    /\ UNCHANGED <<extVars, cellVal, heap, reactiveMap, proxyTarget, targetMap, deps, active,
                   dirty, compVal, oldValue, microQueue, macroQueue, sc, libVars, created, ops,
                   histVars>>

(***************************************************************************)
(* An exception in flight removes the frames below it, one per step.       *)
(***************************************************************************)
Below == stack[Len(stack) - 1]
\* a frame that swallows the exception and returns
UnwoundCaught == SubSeq(stack, 1, Len(stack) - 2)
Unwound == Append(SubSeq(stack, 1, Len(stack) - 2), ThrowFrame)

\* effectFn is left through finally { effectStack.pop(); activeEffect = <top> }
UnwindRun ==
    /\ TopIs("throw") /\ Len(stack) >= 2 /\ Below.k = "run"
    /\ effectStack' = Pop(effectStack)
    /\ activeEffect' = OuterEffect(effectStack)
    /\ stack' = Unwound
    /\ UNCHANGED <<extVars, cellVal, heap, reactiveMap, proxyTarget, targetMap, deps,
                   active, dirty, compVal, oldValue, microQueue, macroQueue, ret, sc, libVars,
                   created, ops, histVars>>

\* batch is left through finally { isBatching = false; <flush batchQueue> }
UnwindBatch ==
    /\ TopIs("throw") /\ Len(stack) >= 2 /\ Below.k = "batch"
    /\ isBatching' = FALSE
    /\ batchQueue' = <<>>
    /\ stack' = Unwound
    /\ UNCHANGED <<wcleanup, cellVal, heap, reactiveMap, proxyTarget, targetMap, deps,
                   active, activeEffect, effectStack, dirty, compVal, oldValue,
                   microQueue, macroQueue, ret, sc, libVars, created, ops, histVars>>

\* the job at the bottom of the stack was started by the host as a microtask
InMicrotask == Len(stack) = 2 /\ Below.k = "job"
\* trigger, `get value`, job, watch() and effect() have no handler
UnwindCall ==
    /\ TopIs("throw") /\ Len(stack) >= 2 /\ ~InMicrotask
    /\ Below.k \in {"trigger", "cget", "job", "winit", "ecreate"}
    /\ stack' = Unwound
    /\ UNCHANGED <<engineVars, ret, sc, libVars, created, ops, histVars>>

\* the exception reaches the statement of the script (or the host) that began it
Uncaught ==
    /\ stack = <<ThrowFrame>>
    /\ stack' = <<>>
    /\ lastOp' = [lastOp EXCEPT !.threw = TRUE]
    /\ UNCHANGED <<engineVars, ret, sc, libVars, created, ops, runs, notified, readSet,
                   afterStop, returned, observed, getterRuns, writes, evlog>>

\* the exception leaves a job the host ran as a microtask: the host reports it
UncaughtMicrotask ==
    /\ TopIs("throw") /\ InMicrotask
    /\ stack' = <<>>
    /\ evlog' = Append(evlog, Event("uncaught", Below.e, Below.wid, Num(ops), Undef))
    /\ UNCHANGED <<engineVars, ret, sc, libVars, created, ops, lastOp, runs, notified, readSet,
                   afterStop, returned, observed, getterRuns, writes>>

(***************************************************************************)
(* computed: the rest of `get value` once the getter has returned.         *)
(***************************************************************************)
\* the computeds that read computed d in their latest run, or are reading it now
ReadersOf(d, reader) ==
    {d2 \in Computeds : <<d, "value">> \in readSet[d2] \/ d2 = reader}

\* value = <result>; dirty = false; track(computedRef, 'value'); return value
ComputedGetReturn ==
    /\ TopIs("cget")
    /\ LET d == Top.e
           below == Pop(stack)
           inBody == below # <<>>
           reader == IF inBody THEN below[Len(below)].e ELSE NoEffect
           G == Track(Bundle, activeEffect, d, "value")
       IN  /\ ApplyBundle(G)
           /\ compVal' = [compVal EXCEPT ![d] = ret]
           /\ dirty' = [dirty EXCEPT ![d] = FALSE]
           /\ stack' = IF inBody
                        THEN [below EXCEPT ![Len(below)] = Advance(@, ret)]
                        ELSE below
           /\ readSet' = IF inBody
                          THEN [readSet EXCEPT ![reader] = @ \cup {<<d, "value">>}]
                          ELSE readSet
           /\ observed' = IF inBody THEN Observe(reader, d, ret) ELSE observed
           /\ getterRuns' = [d2 \in Computeds |->
                                IF d2 = d THEN getterRuns[d] + 1
                                ELSE IF ret # compVal[d] /\ d2 \in ReadersOf(d, reader)
                                THEN 0 ELSE getterRuns[d2]]
    /\ UNCHANGED <<extVars, cellVal, heap, active, activeEffect, effectStack, oldValue,
                   microQueue, macroQueue, ret, sc, libVars, created, ops, lastOp, runs,
                   notified, afterStop, writes, evlog>>

(***************************************************************************)
(* trigger(): notifying the collected effects, computed ones first.        *)
(***************************************************************************)
AtNotify(S) ==
    /\ TopIs("trigger")
    /\ Top.pc <= Len(Top.q)
    /\ Top.q[Top.pc] \in S
Notified == Top.q[Top.pc]
\* the stack once the trigger has moved on to its next effect
Moved == [stack EXCEPT ![Len(stack)].pc = @ + 1]

\* no scheduler: effect()
NotifyPlain ==
    /\ AtNotify(Plain)
    /\ EnterRun(Notified, Moved, runs)
    /\ notified' = notified + 1
    /\ UNCHANGED <<extVars, cellVal, heap, reactiveMap, proxyTarget, active, dirty, compVal,
                   oldValue, microQueue, macroQueue, ret, sc, libVars, created, ops, lastOp,
                   returned, observed, getterRuns, writes, evlog>>

\* computed's scheduler: if (!dirty) { dirty = true; trigger(computedRef, 'value') }
ComputedScheduler(d, stk) ==
    IF dirty[d] THEN stk
    ELSE PushTrigger(stk, TriggerList(targetMap, heap, activeEffect, d, "value", "set"))
NotifyComputed ==
    /\ AtNotify(Computeds)
    /\ dirty' = [dirty EXCEPT ![Notified] = TRUE]
    /\ stack' = ComputedScheduler(Notified, Moved)
    /\ notified' = notified + 1
    /\ UNCHANGED <<extVars, cellVal, heap, reactiveMap, proxyTarget, targetMap, deps, active,
                   activeEffect, effectStack, compVal, oldValue, microQueue, macroQueue,
                   ret, sc, libVars, created, ops, lastOp, runs, readSet, afterStop, returned,
                   observed, getterRuns, writes, evlog>>

\* the callback invocations of watcher w so far
Callbacks(w) ==
    Cardinality({j \in 1..Len(evlog) : evlog[j].t = "cb" /\ evlog[j].w = w})
\* a job that does not call the registered cleanup
JobStartNoCleanup(w, wid) == evlog
\* job(): if (cleanup) cleanup()
JobStart(w, wid) ==
    IF wcleanup[w] # 0
    THEN Append(evlog, Event("cleanup", w, wid, Num(wcleanup[w]), Undef))
    ELSE evlog

\* a scheduler that defers the job of every watcher
WatchSchedulerNoSync(w) ==
    CASE Flush(w) = "post" -> "then"
      [] OTHER -> "job"
\* a scheduler that queues the job of a 'post' watcher like a default one
WatchSchedulerPostAsDefault(w) ==
    CASE Flush(w) = "sync" -> "run"
      [] OTHER -> "job"

\* what watch's scheduler does with the job: "run" it, or the microtask it queues
WatchScheduler(w) ==
    CASE Flush(w) = "sync" -> "run"
      [] Flush(w) = "post" -> "then"
      [] OTHER -> "job"
Task(t, w, wid) == [t |-> t, w |-> w, wid |-> wid]

\* flush 'sync': job() inside the trigger; job starts with effectFn()
NotifyWatchSync ==
    /\ AtNotify(Watchers)
    /\ WatchScheduler(Notified) = "run"
    /\ EnterRun(Notified, Append(Moved, JobFrame(Notified, CurrentWrite)), runs)
    /\ evlog' = JobStart(Notified, CurrentWrite)
    /\ notified' = notified + 1
    /\ UNCHANGED <<extVars, cellVal, heap, reactiveMap, proxyTarget, active, dirty, compVal,
                   oldValue, microQueue, macroQueue, ret, sc, libVars, created, ops, lastOp,
                   returned, observed, getterRuns, writes>>

\* queueMicrotask(job), or Promise.resolve().then(() => queueMicrotask(job))
NotifyWatchDeferred ==
    /\ AtNotify(Watchers)
    /\ WatchScheduler(Notified) # "run"
    /\ microQueue' = Append(microQueue,
                            Task(WatchScheduler(Notified), Notified, CurrentWrite))
    /\ stack' = Moved
    /\ notified' = notified + 1
    /\ UNCHANGED <<extVars, cellVal, heap, reactiveMap, proxyTarget, targetMap, deps, active,
                   activeEffect, effectStack, dirty, compVal, oldValue, macroQueue,
                   ret, sc, libVars, created, ops, lastOp, runs, readSet, afterStop, returned,
                   observed, getterRuns, writes, evlog>>

\* every collected effect has been notified: trigger() returns
TriggerReturn ==
    /\ TopIs("trigger")
    /\ Top.pc > Len(Top.q)
    /\ stack' = Pop(stack)
    /\ UNCHANGED <<engineVars, ret, sc, libVars, created, ops, histVars>>

(***************************************************************************)
(* watch: the rest of job() once the getter has returned.                  *)
(***************************************************************************)
\* if (deep || newValue !== oldValue || <object>) { callback(...); oldValue = newValue }
JobReturn ==
    /\ TopIs("job")
    /\ LET w == Top.e
           fires == JobFires(w, ret, oldValue[w])
       IN  /\ evlog' = Append(evlog, Event(IF fires THEN "cb" ELSE "nocb", w, Top.wid,
                                           ret, oldValue[w]))
           /\ oldValue' = IF fires THEN [oldValue EXCEPT ![w] = ret] ELSE oldValue
           \* the callback registers its cleanup: onCleanup(fn) sets cleanup = fn
           /\ wcleanup' = IF fires /\ Registers(w)
                           THEN [wcleanup EXCEPT ![w] = Callbacks(w) + 1]
                           ELSE wcleanup
    /\ stack' = Pop(stack)
    /\ UNCHANGED <<isBatching, batchQueue, cellVal, heap, reactiveMap, proxyTarget, targetMap, deps, active,
                   activeEffect, effectStack, dirty, compVal, microQueue, macroQueue,
                   ret, sc, libVars, created, ops, lastOp, runs, notified, readSet, afterStop,
                   returned, observed, getterRuns, writes>>

(***************************************************************************)
(* The host's event loop: microtasks run when the call stack is empty, a   *)
(* task (a timer callback) only when no microtask is left.                 *)
(***************************************************************************)
\* the then-callback of flush 'post': queueMicrotask(job)
MicrotaskThen ==
    /\ Idle /\ microQueue # <<>> /\ Head(microQueue).t = "then"
    /\ microQueue' = Append(Tail(microQueue), [Head(microQueue) EXCEPT !.t = "job"])
    /\ UNCHANGED <<extVars, cellVal, heap, reactiveMap, proxyTarget, targetMap, deps, active,
                   activeEffect, effectStack, dirty, compVal, oldValue, macroQueue,
                   stack, ret, sc, libVars, created, ops, histVars>>

\* a queued job runs
MicrotaskJob ==
    /\ Idle /\ microQueue # <<>> /\ Head(microQueue).t = "job"
    /\ microQueue' = Tail(microQueue)
    /\ EnterRun(Head(microQueue).w, <<JobFrame(Head(microQueue).w, Head(microQueue).wid)>>,
                runs)
    /\ evlog' = JobStart(Head(microQueue).w, Head(microQueue).wid)
    /\ UNCHANGED <<extVars, cellVal, heap, reactiveMap, proxyTarget, active, dirty, compVal,
                   oldValue, macroQueue, ret, sc, libVars, created, ops, lastOp, notified,
                   returned, observed, getterRuns, writes>>

\* the next task: a setTimeout(0) callback of the user program (it only records)
RunMacrotask ==
    /\ Idle /\ microQueue = <<>> /\ macroQueue # <<>>
    /\ macroQueue' = Tail(macroQueue)
    /\ evlog' = Append(evlog, Event("timer", "", Head(macroQueue).wid, Undef, Undef))
    /\ UNCHANGED <<extVars, cellVal, heap, reactiveMap, proxyTarget, targetMap, deps, active,
                   activeEffect, effectStack, dirty, compVal, oldValue, microQueue,
                   stack, ret, sc, libVars, created, ops, lastOp, runs, notified, readSet,
                   afterStop, returned, observed, getterRuns, writes>>

(***************************************************************************)
(* The statements of the main script (outside every computation).          *)
(***************************************************************************)
Name == Scenarios[sc].name
CanOp == Idle /\ ops < MaxOps
\* the plain effects that read (t, key) in their latest run and are not stopped
ReadersAt(t, key) ==
    {e \in Plain : created[e] /\ active[e] /\ <<t, key>> \in readSet[e]}
\* what every plain effect that is not stopped read in its latest run
ReadsNow == [e \in Plain |-> IF created[e] /\ active[e] THEN readSet[e] ELSE {}]
\* the record of a write of the main script
\* (jobs: the jobs of each watcher that have run so far; queued: the watchers
\* with a job waiting in the microtask queue)
Write(t, key, v, prev, same) ==
    [t |-> t, key |-> key, v |-> v, prev |-> prev, same |-> same,
     ws |-> {w \in Watchers : created[w] /\ active[w]},
     jobs |-> [w \in Watchers |->
                 Cardinality({j \in 1..Len(evlog) :
                                 evlog[j].w = w /\ evlog[j].t \in {"cb", "nocb", "mthrow"}})],
     queued |-> {microQueue[j].w : j \in 1..Len(microQueue)}]
\* a write that changes what (t, key) holds restarts the count of every computed
\* that read it in its latest run
ResetRuns(changed, t, key) ==
    [d \in Computeds |->
        IF changed /\ <<t, key>> \in readSet[d] THEN 0 ELSE getterRuns[d]]
\* the same for a container write, which may also change an array's length
ResetRunsHeap(pt, h2) ==
    [d \in Computeds |->
        IF \E rd \in readSet[d] :
              /\ rd[1] \in Raws
              /\ ToRawIn(pt, RawGet(heap, rd[1], rd[2])) # ToRawIn(pt, RawGet(h2, rd[1], rd[2]))
        THEN 0 ELSE getterRuns[d]]

\* x.value = v: if (newValue !== value) { value = newValue; trigger(refObject, 'value') }
RefSet(c, v) ==
    /\ CanOp /\ v \in Scenarios[sc].wcell
    /\ LET does == RefChanged(v, cellVal[c])
           q == TriggerList(targetMap, heap, activeEffect, c, "value", "set")
       IN  /\ cellVal' = IF does THEN [cellVal EXCEPT ![c] = v] ELSE cellVal
           /\ stack' = IF does THEN PushTrigger(stack, q) ELSE stack
           /\ lastOp' = [NoOp EXCEPT !.kind = "refset", !.t = c, !.key = "value",
                                     !.v = v, !.prev = cellVal[c],
                                     !.same = SameValue(v, cellVal[c]),
                                     !.existing = TRUE,
                                     !.readers = ReadersAt(c, "value"),
                                     !.hadDeps = q # <<>>,
                                     !.reads = ReadsNow]
           /\ writes' = Append(writes, Write(c, "value", v, cellVal[c],
                                              SameValue(v, cellVal[c])))
           /\ getterRuns' = ResetRuns(~SameValue(v, cellVal[c]), c, "value")
    /\ ops' = ops + 1
    /\ runs' = NoRuns
    /\ notified' = 0
    /\ UNCHANGED <<extVars, heap, reactiveMap, proxyTarget, targetMap, deps, active,
                   activeEffect, effectStack, dirty, compVal, oldValue, microQueue,
                   macroQueue, ret, sc, libVars, created, readSet, afterStop, returned,
                   observed, evlog>>

\* c.path.key = v, with v a value of the program or (self) what c.path.key reads
ProxySet(kw, v0) ==
    /\ CanOp /\ kw \in Scenarios[sc].wkeys
    /\ IF kw.self THEN v0 = Undef ELSE v0 \in kw.vals
    /\ LET G0 == GetPath(Bundle, heap, activeEffect, RootProxy(kw.root), kw.path)
           base == G0.val
           target == G0.pt[base.n]
           G1 == ProxyGet(G0, heap, activeEffect, base, kw.key)
           \* what the user reads at the key before the write
           seen == G1.val
           G == IF kw.self THEN G1 ELSE G0
           v == IF kw.self THEN seen ELSE v0
           \* reactiveHandlers.set
           old == RawGet(heap, target, kw.key)
           hadKey == HadKey(heap, target, kw.key)
           h2 == RawSet(heap, target, kw.key, v)
           type == SetTriggerType(hadKey, v, old)
           q == TriggerList(G.tm, h2, activeEffect, target, kw.key, type)
           same == ToRawIn(G1.pt, v) = ToRawIn(G1.pt, seen)
       IN  /\ base.k = "proxy"
           /\ ApplyBundle(G)
           /\ heap' = h2
           /\ stack' = IF type = "none" THEN stack
                        ELSE IF TriggerThrows(G.tm, h2, target, kw.key)
                        THEN <<ThrowFrame>>
                        ELSE PushTrigger(stack, q)
           /\ writes' = Append(writes, Write(target, kw.key, v, seen, same))
           /\ lastOp' = [NoOp EXCEPT !.kind = "proxyset", !.t = target, !.key = kw.key,
                                     !.v = v, !.prev = seen, !.same = same,
                                     !.existing = (kw.key \in heap[target].own
                                                   \/ (heap[target].arr /\ kw.key = "length")),
                                     !.readers = ReadersAt(target, kw.key),
                                     !.hadDeps = targetMap[target].dep[kw.key] # <<>>,
                                     !.reads = ReadsNow,
                                     !.len = heap[target].len]
           /\ getterRuns' = ResetRunsHeap(G1.pt, h2)
    /\ ops' = ops + 1
    /\ runs' = NoRuns
    /\ notified' = 0
    /\ UNCHANGED <<extVars, cellVal, active, activeEffect, effectStack, dirty, compVal, oldValue,
                   microQueue, macroQueue, ret, sc, libVars, created, readSet, afterStop,
                   observed, evlog>>

\* d.value read by the main script while d is not dirty
ComputedReadClean(d) ==
    /\ CanOp /\ d \in Scenarios[sc].reads /\ ~dirty[d]
    /\ ret' = compVal[d]
    /\ lastOp' = [NoOp EXCEPT !.kind = "cread", !.t = d]
    /\ ops' = ops + 1
    /\ runs' = NoRuns
    /\ notified' = 0
    /\ UNCHANGED <<engineVars, stack, sc, libVars, created, readSet, afterStop, returned,
                   observed, getterRuns, writes, evlog>>

\* d.value read by the main script while d is dirty
ComputedReadDirty(d) ==
    /\ CanOp /\ d \in Scenarios[sc].reads /\ dirty[d]
    /\ EnterRun(d, <<CgetFrame(d)>>, NoRuns)
    /\ lastOp' = [NoOp EXCEPT !.kind = "cread", !.t = d]
    /\ ops' = ops + 1
    /\ notified' = 0
    /\ UNCHANGED <<extVars, cellVal, heap, reactiveMap, proxyTarget, active, dirty, compVal,
                   oldValue, microQueue, macroQueue, ret, sc, libVars, created, returned,
                   observed, getterRuns, writes, evlog>>

\* stop(effectFn) called by the main script
StopCall(e) ==
    /\ CanOp /\ e \in Scenarios[sc].stops /\ created[e]
    /\ LET G == IF active[e] THEN StopEffect(Bundle, e) ELSE Bundle
       IN  ApplyBundle(G)
    /\ active' = [active EXCEPT ![e] = FALSE]
    /\ lastOp' = [NoOp EXCEPT !.kind = "stop", !.t = e]
    /\ ops' = ops + 1
    /\ runs' = NoRuns
    /\ notified' = 0
    /\ UNCHANGED <<extVars, cellVal, heap, activeEffect, effectStack, dirty, compVal, oldValue,
                   microQueue, macroQueue, stack, ret, sc, libVars, created, readSet, afterStop,
                   observed, getterRuns, writes, evlog>>

\* h(), h being what effect() returned: effectFn runs once more
HandleCall(e) ==
    /\ CanOp /\ Name = "handle" /\ e \in Plain /\ created[e]
    /\ EnterRun(e, <<>>, NoRuns)
    /\ evlog' = Append(evlog, Event("handle", e, CurrentWrite, Num(ops + 1), Undef))
    /\ lastOp' = [NoOp EXCEPT !.kind = "call", !.t = e]
    /\ ops' = ops + 1
    /\ notified' = 0
    /\ UNCHANGED <<extVars, cellVal, heap, reactiveMap, proxyTarget, active, dirty, compVal,
                   oldValue, microQueue, macroQueue, ret, sc, libVars, created, returned, observed,
                   getterRuns, writes>>

\* reactive(v) called by the main script on an object, a container or a primitive
ReactiveArgs ==
    {Raw(r) : r \in Raws} \cup {Px(i) : i \in 1..Len(proxyTarget)} \cup {Num(1), Undef}
ReactiveCall(v) ==
    /\ CanOp /\ Scenarios[sc].name = "nested" /\ v \in ReactiveArgs
    /\ LET G == Reactive(Bundle, v)
       IN  /\ ApplyBundle(G)
           /\ ret' = G.val
    /\ lastOp' = [NoOp EXCEPT !.kind = "reactive", !.v = v]
    /\ ops' = ops + 1
    /\ runs' = NoRuns
    /\ notified' = 0
    /\ UNCHANGED <<extVars, cellVal, heap, active, activeEffect, effectStack, dirty, compVal,
                   oldValue, microQueue, macroQueue, stack, sc, libVars, created, readSet,
                   afterStop, observed, getterRuns, writes, evlog>>

\* setTimeout(record, 0)
SetTimeout ==
    /\ CanOp /\ Scenarios[sc].timers
    /\ macroQueue' = Append(macroQueue, Task("timer", "", CurrentWrite))
    /\ lastOp' = [NoOp EXCEPT !.kind = "timeout"]
    /\ ops' = ops + 1
    /\ runs' = NoRuns
    /\ notified' = 0
    /\ UNCHANGED <<extVars, cellVal, heap, reactiveMap, proxyTarget, targetMap, deps, active,
                   activeEffect, effectStack, dirty, compVal, oldValue, microQueue,
                   stack, ret, sc, libVars, created, readSet, afterStop, returned, observed,
                   getterRuns, writes, evlog>>


\* Reflect.deleteProperty(target, key) on a raw object
RawDelete(h, r, key) == [h EXCEPT ![r].own = @ \ {key}, ![r].val[key] = Undef]
\* the delete statements of the programs: delete c.key
Deletes == IF Name = "keys" THEN {<<"o", "n">>, <<"o", "b">>} ELSE {}

\* delete c.key: reactiveHandlers.deleteProperty
ProxyDelete(root, key) ==
    /\ CanOp /\ <<root, key>> \in Deletes
    /\ LET hadKey == key \in heap[root].own
           h2 == RawDelete(heap, root, key)
           q == TriggerList(targetMap, h2, activeEffect, root, key, "delete")
       IN  /\ heap' = h2
           /\ stack' = IF hadKey THEN PushTrigger(stack, q) ELSE stack
           /\ writes' = Append(writes, Write(root, key, Undef, RawGet(heap, root, key),
                                              ~hadKey))
           /\ lastOp' = [NoOp EXCEPT !.kind = "delete", !.t = root, !.key = key,
                                     !.prev = RawGet(heap, root, key),
                                     !.same = ~hadKey, !.existing = hadKey,
                                     !.readers = ReadersAt(root, key),
                                     !.reads = ReadsNow]
           /\ getterRuns' = ResetRunsHeap(proxyTarget, h2)
    /\ ops' = ops + 1
    /\ runs' = NoRuns
    /\ notified' = 0
    /\ UNCHANGED <<extVars, cellVal, reactiveMap, proxyTarget, targetMap, deps, active,
                   activeEffect, effectStack, dirty, compVal, oldValue, microQueue,
                   macroQueue, ret, sc, libVars, created, readSet, afterStop, returned, observed,
                   evlog>>

\* computed({get, set}) against computed(getter)
HasSetter(d) == d = "d2"
\* a setter that rejects the write by throwing
ComputedSetterThrows(d) == IF HasSetter(d) THEN "user" ELSE "throw"
\* the setter computed() installs: the user's, or () => console.warn(...)
ComputedSetter(d) == IF HasSetter(d) THEN "user" ELSE "warn"

\* d.value = v on a computed made from a getter only
ComputedSetReadonly(d, v) ==
    /\ CanOp /\ Name = "setter" /\ v \in Scenarios[sc].wcell
    /\ ComputedSetter(d) # "user"
    /\ IF ComputedSetter(d) = "warn"
       THEN /\ evlog' = Append(evlog, Event("warn", d, CurrentWrite, v, Undef))
            /\ stack' = stack
       ELSE /\ evlog' = evlog
            /\ stack' = <<ThrowFrame>>
    /\ lastOp' = [NoOp EXCEPT !.kind = "cset", !.t = d, !.v = v, !.prev = compVal[d],
                              !.wasDirty = dirty[d]]
    /\ ops' = ops + 1
    /\ runs' = NoRuns
    /\ notified' = 0
    /\ UNCHANGED <<engineVars, ret, sc, libVars, created, readSet, afterStop, returned, observed,
                   getterRuns, writes>>

\* d.value = v on computed({get, set: v => { x.value = v }}): setter(v)
ComputedSetCall(d, v) ==
    /\ CanOp /\ Name = "setter" /\ v \in Scenarios[sc].wcell
    /\ ComputedSetter(d) = "user"
    /\ LET c == CopyCell
           does == RefChanged(v, cellVal[c])
           q == TriggerList(targetMap, heap, activeEffect, c, "value", "set")
       IN  /\ cellVal' = IF does THEN [cellVal EXCEPT ![c] = v] ELSE cellVal
           /\ stack' = IF does THEN PushTrigger(stack, q) ELSE stack
           /\ writes' = Append(writes, Write(c, "value", v, cellVal[c],
                                              SameValue(v, cellVal[c])))
           /\ getterRuns' = ResetRuns(~SameValue(v, cellVal[c]), c, "value")
    /\ evlog' = Append(evlog, Event("setter", d, CurrentWrite, v, Undef))
    /\ lastOp' = [NoOp EXCEPT !.kind = "cset", !.t = d, !.v = v, !.prev = compVal[d],
                              !.wasDirty = dirty[d]]
    /\ ops' = ops + 1
    /\ runs' = NoRuns
    /\ notified' = 0
    /\ UNCHANGED <<extVars, heap, reactiveMap, proxyTarget, targetMap, deps, active,
                   activeEffect, effectStack, dirty, compVal, oldValue, microQueue,
                   macroQueue, ret, sc, libVars, created, readSet, afterStop, returned, observed>>

\* the function watch() returned: stop(effectFn); if (cleanup) cleanup()
WatchStop(w) ==
    /\ CanOp /\ w \in Scenarios[sc].stops /\ created[w]
    /\ LET G == IF active[w] THEN StopEffect(Bundle, w) ELSE Bundle
       IN  ApplyBundle(G)
    /\ active' = [active EXCEPT ![w] = FALSE]
    /\ evlog' = LET log == Append(evlog, Event("stop", w, CurrentWrite, Undef, Undef))
                IN  IF wcleanup[w] # 0
                    THEN Append(log, Event("cleanup", w, CurrentWrite, Num(wcleanup[w]),
                                           Undef))
                    ELSE log
    /\ lastOp' = [NoOp EXCEPT !.kind = "wstop", !.t = w]
    /\ ops' = ops + 1
    /\ runs' = NoRuns
    /\ notified' = 0
    /\ UNCHANGED <<extVars, cellVal, heap, activeEffect, effectStack, dirty, compVal,
                   oldValue, microQueue, macroQueue, stack, ret, sc, libVars, created, readSet,
                   afterStop, observed, getterRuns, writes>>

\* the functions the programs hand to batch: a statement is a nested
\* batch(() => { x.value = v }), x.value = v, or a throw
BatchBodies == {<<"batch", "set">>, <<"batch", "throw">>, <<"set">>}
InnerBody == <<"set">>
AtBatch(stmt) ==
    /\ TopIs("batch")
    /\ Top.pc <= Len(Top.q)
    /\ Top.q[Top.pc] = stmt

\* batch(fn): isBatching = true; try { fn() } ...
BatchCall(body) ==
    /\ CanOp /\ Name = "batch" /\ body \in BatchBodies
    /\ isBatching' = TRUE
    /\ stack' = <<BatchFrame(body)>>
    /\ lastOp' = [NoOp EXCEPT !.kind = "batch"]
    /\ ops' = ops + 1
    /\ runs' = NoRuns
    /\ notified' = 0
    /\ UNCHANGED <<wcleanup, batchQueue, cellVal, heap, reactiveMap, proxyTarget,
                   targetMap, deps, active, activeEffect, effectStack, dirty, compVal,
                   oldValue, microQueue, macroQueue, ret, sc, libVars, created, readSet,
                   afterStop, returned, observed, getterRuns, writes, evlog>>

\* fn calls batch again
BatchNested ==
    /\ AtBatch("batch")
    /\ isBatching' = TRUE
    /\ stack' = Append(Moved, BatchFrame(InnerBody))
    /\ UNCHANGED <<wcleanup, batchQueue, cellVal, heap, reactiveMap, proxyTarget,
                   targetMap, deps, active, activeEffect, effectStack, dirty, compVal,
                   oldValue, microQueue, macroQueue, ret, sc, libVars, created, ops, histVars>>

\* fn writes a cell: the ref setter, which does not look at isBatching
BatchWrite(c, v) ==
    /\ AtBatch("set") /\ v \in Scenarios[sc].wcell
    /\ LET does == RefChanged(v, cellVal[c])
           q == TriggerList(targetMap, heap, activeEffect, c, "value", "set")
       IN  /\ cellVal' = IF does THEN [cellVal EXCEPT ![c] = v] ELSE cellVal
           /\ stack' = IF does THEN PushTrigger(Moved, q) ELSE Moved
           /\ writes' = Append(writes, Write(c, "value", v, cellVal[c],
                                              SameValue(v, cellVal[c])))
           /\ getterRuns' = ResetRuns(~SameValue(v, cellVal[c]), c, "value")
    /\ UNCHANGED <<extVars, heap, reactiveMap, proxyTarget, targetMap, deps, active,
                   activeEffect, effectStack, dirty, compVal, oldValue, microQueue,
                   macroQueue, ret, sc, libVars, created, ops, lastOp, runs, notified, readSet,
                   afterStop, returned, observed, evlog>>

\* fn throws
BatchThrow ==
    /\ AtBatch("throw")
    /\ stack' = Append(Moved, ThrowFrame)
    /\ UNCHANGED <<engineVars, ret, sc, libVars, created, ops, histVars>>

\* fn has returned: finally { isBatching = false; batchQueue.forEach(...); clear() }
BatchReturn ==
    /\ TopIs("batch")
    /\ Top.pc > Len(Top.q)
    /\ isBatching' = FALSE
    /\ batchQueue' = <<>>
    /\ stack' = Pop(stack)
    /\ UNCHANGED <<wcleanup, cellVal, heap, reactiveMap, proxyTarget, targetMap, deps,
                   active, activeEffect, effectStack, dirty, compVal, oldValue,
                   microQueue, macroQueue, ret, sc, libVars, created, ops, histVars>>

WriteValues == {Num(1), Num(2), Num(3), Num(5), NaN, Undef}

Next ==
    \/ \E e \in Plain : EffectCreate(e)
    \/ EffectCreateReturn
    \/ \E w \in Watchers : WatchCreate(w)
    \/ WatchCreateReturn
    \/ StepReadCell
    \/ StepGet
    \/ StepReadCompClean
    \/ StepReadCompDirty
    \/ StepStop
    \/ StepKeys
    \/ StepIter
    \/ StepTraverse
    \/ StepCopy
    \/ StepSetKey
    \/ StepThrowIf
    \/ StepRet
    \/ StepWhen
    \/ RunReturn
    \/ UnwindRun
    \/ UnwindBatch
    \/ UnwindCall
    \/ Uncaught
    \/ UncaughtMicrotask
    \/ ComputedGetReturn
    \/ NotifyPlain
    \/ NotifyComputed
    \/ NotifyWatchSync
    \/ NotifyWatchDeferred
    \/ TriggerReturn
    \/ JobReturn
    \/ MicrotaskThen
    \/ MicrotaskJob
    \/ RunMacrotask
    \/ \E c \in Cells, v \in WriteValues : RefSet(c, v)
    \/ \E kw \in Scenarios[sc].wkeys, v \in WriteValues : ProxySet(kw, v)
    \/ \E d \in Computeds : ComputedReadClean(d)
    \/ \E d \in Computeds : ComputedReadDirty(d)
    \/ \E e \in Plain : StopCall(e)
    \/ \E e \in Plain : HandleCall(e)
    \/ \E v \in ReactiveArgs : ReactiveCall(v)
    \/ SetTimeout
    \/ \E d \in Deletes : ProxyDelete(d[1], d[2])
    \/ \E d \in Computeds, v \in WriteValues : ComputedSetReadonly(d, v)
    \/ \E d \in Computeds, v \in WriteValues : ComputedSetCall(d, v)
    \/ \E w \in Watchers : WatchStop(w)
    \/ \E body \in BatchBodies : BatchCall(body)
    \/ BatchNested
    \/ \E c \in Cells, v \in WriteValues : BatchWrite(c, v)
    \/ BatchThrow
    \/ BatchReturn

Spec == Init /\ [][Next]_vars

\* the utilities run on their own, next to a reactive core that stays as loaded
LibInit == Init /\ sc = 1
SpecHttp == LibInit /\ [][NextHttp]_vars
SpecWs == LibInit /\ [][NextWs]_vars
SpecForm == LibInit /\ [][NextForm]_vars
SpecQueue == LibInit /\ [][NextQueue]_vars
SpecIntercept == LibInit /\ [][NextIntercept]_vars
SpecPolling == LibInit /\ [][NextPolling]_vars

(***************************************************************************)
(* The claims.                                                             *)
(***************************************************************************)
\* the main script's last statement has returned
Returned(kind) == Idle /\ lastOp.kind = kind

\* C1: a write of a different value to C[k] runs every plain computation that
\* read C[k] in its latest run exactly once during that write, whatever else
\* the computation read (here: also a computed derived from C[k]).
C1_RunsExactlyOncePerWrite ==
    (Returned("proxyset") /\ ~lastOp.same) =>
        \A e \in lastOp.readers : runs[e] = 1

\* C2: writing to an existing key of a container (an array's length and a key
\* holding a nested object included) the value the key already has invokes
\* no computation and no scheduler.
C2_SameValueWriteNotifiesNothing ==
    (Returned("proxyset") /\ lastOp.existing /\ lastOp.same) => notified = 0

\* C3: once stop(e) has returned, e is in no dependency set and neither a later
\* trigger nor one that is in progress invokes it.
C3_StoppedNeverInvoked ==
    \A e \in Plain :
        (created[e] /\ ~active[e]) =>
            /\ e \notin afterStop
            /\ \A t \in Targets, key \in AllKeys : ~Has(targetMap[t].dep[key], e)

\* C4: a computed's getter runs at most once between two consecutive changes of
\* the upstream values it read.
C4_GetterOncePerUpstreamChange ==
    \A d \in Computeds : getterRuns[d] <= 1

\* C5: once a write has returned, reading computed.value returns the getter's
\* result on the current upstream values, never an outdated memoized value.
C5_ComputedReadIsFresh ==
    Returned("cread") => ret = Fresh(lastOp.t)
C5_Witness ==
    /\ Returned("cread")
    /\ Scenarios[sc].name = "computed"
    /\ lastOp.t = "d1"
    /\ cellVal["x"] = Num(2)
    /\ ret = Num(4)
    /\ getterRuns["d1"] = 1

\* C6: a plain computation run by a write never reads a stale computed value.
C6_NoStaleComputedObserved ==
    observed.got = observed.fresh

\* C7: reactive() returns one and the same container for a raw object however
\* it is reached (the object, its container, a nested read), and returns
\* non-objects unchanged.
C7_ReactiveIdentityStable ==
    /\ \A r \in Raws : Cardinality(returned[r]) <= 1
    /\ Returned("reactive") =>
          IF IsObject(lastOp.v)
          THEN /\ ret.k = "proxy"
               /\ Raw(proxyTarget[ret.n]) = ToRawV(lastOp.v)
               /\ lastOp.v.k = "proxy" => ret = lastOp.v
          ELSE ret = lastOp.v
C7_Witness ==
    /\ Returned("reactive")
    /\ lastOp.v = Raw("oa")
    /\ created["e1"]
    /\ ops >= 2
    /\ returned["oa"] = {ret.n}

\* C8: a write to a cell triggers the cell's dependents if and only if the new
\* value differs from the stored one, NaN being equal to NaN.
C8_CellTriggersIffChanged ==
    (Returned("refset") /\ lastOp.hadDeps) => (notified > 0 <=> ~lastOp.same)

\* the jobs of watcher w scheduled by write i, as positions in evlog
JobsOf(w, i) ==
    {j \in 1..Len(evlog) : evlog[j].t \in {"cb", "nocb"} /\ evlog[j].w = w /\ evlog[j].wid = i}
\* write i has returned to the main script
WriteReturned(i) == i < Len(writes) \/ Idle

\* C9: a write of a different value v to the cell of a flush 'sync' watcher
\* invokes the callback exactly once, with (v, previous value), before the
\* write returns.
C9_SyncWatcherFiresInsideWrite ==
    \A i \in 1..Len(writes) :
        (WriteReturned(i) /\ ~writes[i].same /\ "wS" \in writes[i].ws) =>
            /\ Cardinality(JobsOf("wS", i)) = 1
            /\ \A j \in JobsOf("wS", i) :
                  evlog[j] = Event("cb", "wS", i, writes[i].v, writes[i].prev)
C9_Witness ==
    /\ Idle
    /\ Len(writes) = 2
    /\ \A i \in 1..2 : ~writes[i].same /\ "wS" \in writes[i].ws
    /\ Cardinality(JobsOf("wS", 2)) = 1

\* C10: for one write that triggers a sync watcher S, a default-flush watcher D
\* and a post-flush watcher P, S runs inside the write, then D, then P, and D
\* and P run before a timer callback scheduled after the write.
C10_FlushOrder ==
    \A i \in 1..Len(writes) :
        (~writes[i].same /\ {"wS", "wD", "wP"} \subseteq writes[i].ws) =>
            /\ WriteReturned(i) => JobsOf("wS", i) # {}
            /\ \A d \in JobsOf("wD", i) : \E s \in JobsOf("wS", i) : s < d
            /\ \A p \in JobsOf("wP", i) : \E d \in JobsOf("wD", i) : d < p
            /\ \A t \in 1..Len(evlog) :
                  (evlog[t].t = "timer" /\ evlog[t].wid >= i) =>
                      /\ \E d \in JobsOf("wD", i) : d < t
                      /\ \E p \in JobsOf("wP", i) : p < t
            /\ Len(writes) = 1 =>
                  \A w \in {"wS", "wD", "wP"} : \A j \in JobsOf(w, i) :
                      evlog[j] = Event("cb", w, i, writes[i].v, writes[i].prev)
C10_Witness ==
    /\ Len(writes) = 1
    /\ Len(evlog) = 4
    /\ evlog[1].w = "wS" /\ evlog[2].w = "wD" /\ evlog[3].w = "wP"
    /\ \A j \in 1..3 : evlog[j].t = "cb"
    /\ evlog[4].t = "timer"

\* C11: a watcher whose source is the container of t = {a: {b: [tn]}}, with
\* tn = {n, a: t} reachable only through the array and closing a cycle, fires
\* its callback for every write that changes tn.n (three levels below t); the
\* traversal that registers the dependencies terminates on the cycle.
C11_DeepWatcherFires ==
    \A i \in 1..Len(writes) :
        (/\ Idle /\ microQueue = <<>>
         /\ writes[i].t = "tn" /\ ~writes[i].same
         /\ "wC" \in writes[i].ws) =>
            \E j \in JobsOf("wC", i) : evlog[j].t = "cb"
C11_Witness ==
    /\ Idle /\ microQueue = <<>>
    /\ Len(writes) = 1
    /\ writes[1].t = "tn" /\ writes[1].key = "n" /\ ~writes[1].same
    /\ "wC" \in writes[1].ws
    /\ <<"tn", "n">> \in deps["wC"]
    /\ \E j \in JobsOf("wC", 1) : evlog[j] = Event("cb", "wC", 1, Px(3), Px(3))

\* the index keys a plain effect had read on the written array when the write began
IndicesRead(e) ==
    {KeyNum(rd[2]) : rd \in {r2 \in lastOp.reads[e] : r2[1] = lastOp.t /\ KeyNum(r2[2]) >= 0}}
\* C12: on an array container, adding an element at a new index re-runs every
\* computation that read `length`; setting `length` to a smaller value n
\* re-runs every computation that read an index i >= n and does not re-run a
\* computation that read only indices below n.
C12_ArrayLengthAndIndexReaders ==
    (Returned("proxyset") /\ IsArray(heap, lastOp.t)) =>
        /\ KeyNum(lastOp.key) >= lastOp.len =>
              \A e \in Plain :
                  <<lastOp.t, "length">> \in lastOp.reads[e] => runs[e] >= 1
        /\ (lastOp.key = "length" /\ lastOp.v.n < lastOp.len) =>
              \A e \in Plain :
                  /\ (\E i \in IndicesRead(e) : i >= lastOp.v.n) => runs[e] >= 1
                  /\ (/\ lastOp.reads[e] # {}
                      /\ \A rd \in lastOp.reads[e] :
                            /\ rd[1] = lastOp.t
                            /\ KeyNum(rd[2]) >= 0 /\ KeyNum(rd[2]) < lastOp.v.n)
                        => runs[e] = 0
\* the same without the programs that iterate the array with for...of
C12_HoldsWithoutSymbolKeys ==
    Name # "iter" => C12_ArrayLengthAndIndexReaders

\* C13: a computation that enumerated the keys of an object container is
\* re-run whenever a key is later added to or deleted from the container.
C13_EnumeratorsInvalidated ==
    (/\ Idle /\ lastOp.t \in Raws /\ ~IsArray(heap, lastOp.t)
     /\ \/ lastOp.kind = "proxyset" /\ ~lastOp.existing
        \/ lastOp.kind = "delete" /\ lastOp.existing) =>
        \A e \in Plain :
            <<lastOp.t, "iterate">> \in lastOp.reads[e] => runs[e] >= 1

\* C14: each time a watcher's job runs, the callback is invoked if and only if
\* deep was requested, or the getter's result is !== the stored old value, or
\* the result is an object; when it is invoked the stored old value becomes
\* the result, and otherwise the stored old value is unchanged.
C14_JobFiringCondition ==
    [][(TopIs("job") /\ stack' = Pop(stack)) =>
         LET w == Top.e
             differs == ret # oldValue[w] \/ ret.k = "nan"
             should == Deep(w) \/ differs \/ ret.k \in {"raw", "proxy"}
         IN  /\ Len(evlog') = Len(evlog) + 1
             /\ evlog'[Len(evlog')].w = w
             /\ evlog'[Len(evlog')].t = (IF should THEN "cb" ELSE "nocb")
             /\ oldValue'[w] = (IF should THEN ret ELSE oldValue[w])]_vars
C14_Witness ==
    /\ Idle /\ microQueue = <<>>
    /\ \E j \in 1..Len(evlog) :
          evlog[j].t = "cb" /\ evlog[j].w = "wX" /\ evlog[j].nv = evlog[j].ov
    /\ \E j \in 1..Len(evlog) :
          evlog[j].t = "cb" /\ evlog[j].w = "wC" /\ evlog[j].nv = evlog[j].ov
    /\ oldValue["wC"] = Px(3)

\* the events of watcher w: its jobs and what else the log holds for it
EventsOf(w) == {j \in 1..Len(evlog) : evlog[j].w = w}
\* what w's getter returns when watch() is called (before every write)
ConstructionValue(w) ==
    CASE Prog(w)[1].op = "ret" -> Scenarios[sc].x0
      [] Prog(w)[1].op = "traverse" -> RootProxy(Prog(w)[1].t)
      [] OTHER -> JsAdd(Num(0), Scenarios[sc].x0)
\* C15: with immediate, watch() runs the job once before it returns and the
\* callback receives (initial getter value, undefined); without immediate the
\* getter runs once, the callback is not invoked before a dependency changes,
\* and the first callback receives the construction-time value as oldValue.
C15_WatchConstruction ==
    \A w \in Watchers :
        /\ (created[w] /\ Immediate(w)) =>
              \E j \in EventsOf(w) :
                  /\ evlog[j] = Event("cb", w, 0, ConstructionValue(w), Undef)
                  /\ \A k \in EventsOf(w) : evlog[k].wid = 0 => k = j
        /\ (TopIs("winit") /\ Top.e = w) => runs[w] = 1
        /\ (created[w] /\ ~Immediate(w)) =>
              \A j \in EventsOf(w) :
                  /\ evlog[j].t = "cb" =>
                        \E i \in 1..evlog[j].wid : ~writes[i].same
                  /\ (evlog[j].t = "cb" /\ \A k \in EventsOf(w) : k < j => evlog[k].t # "cb")
                        => evlog[j].ov = ConstructionValue(w)
\* the same for every program but the one whose cell holds undefined
C15_HoldsForDefinedInitialValue ==
    Name # "immediate" => C15_WatchConstruction

\* how many callback invocations of w the log holds up to position j
CallbacksUpTo(w, j) ==
    Cardinality({k \in 1..j : evlog[k].t = "cb" /\ evlog[k].w = w})
\* C16: the cleanup a callback invocation registers through its third
\* parameter is invoked before the next invocation of the callback, and the
\* cleanup registered by the most recent invocation is invoked when the
\* watcher's stop function is called.
C16_CleanupBeforeNextCallback ==
    \A w \in {w2 \in Watchers : Registers(w2)} :
        /\ \A i, j \in EventsOf(w) :
              (i < j /\ evlog[i].t = "cb" /\ evlog[j].t = "cb") =>
                  \E k \in (i + 1)..(j - 1) :
                      /\ evlog[k].t = "cleanup" /\ evlog[k].w = w
                      /\ evlog[k].nv = Num(CallbacksUpTo(w, k))
        /\ \A s \in EventsOf(w) :
              (evlog[s].t = "stop" /\ CallbacksUpTo(w, s) > 0) =>
                  /\ s < Len(evlog)
                  /\ evlog[s + 1].t = "cleanup" /\ evlog[s + 1].w = w
                  /\ evlog[s + 1].nv = Num(CallbacksUpTo(w, s))
C16_Witness ==
    /\ Idle
    /\ CallbacksUpTo("wK", Len(evlog)) = 2
    /\ lastOp.kind = "wstop"
    /\ evlog[Len(evlog)] = Event("cleanup", "wK", 2, Num(2), Undef)

\* the frame that called the trigger at position i: the nearest frame below it
\* that is not itself a trigger (0: the main script)
CallerOf(i) ==
    IF \E j \in 1..(i - 1) : stack[j].k # "trigger"
    THEN CHOOSE j \in 1..(i - 1) :
             /\ stack[j].k # "trigger"
             /\ \A j2 \in (j + 1)..(i - 1) : stack[j2].k = "trigger"
    ELSE 0
\* C17: a write performed by the body of a running computation never invokes
\* that computation: no trigger begun by the body of e (directly, or through
\* the scheduler of a computed it notifies) has e among the effects it runs.
C17_NoSelfRetrigger ==
    \A i \in 1..Len(stack) :
        (stack[i].k = "trigger" /\ CallerOf(i) # 0 /\ stack[CallerOf(i)].k = "run") =>
            ~Has(stack[i].q, stack[CallerOf(i)].e)
C17_Witness ==
    /\ Len(stack) >= 3
    /\ stack[Len(stack) - 1].k = "trigger" /\ stack[Len(stack) - 1].q = <<"e2">>
    /\ stack[Len(stack) - 2].k = "run" /\ stack[Len(stack) - 2].e = "e1"
    /\ TopIs("run") /\ Top.e = "e2"
    /\ Has(targetMap["x"].dep["value"], "e1")
    /\ <<"x", "value">> \in readSet["e1"]
C17_WitnessKey ==
    /\ Name = "selfkey"
    /\ Len(stack) >= 3
    /\ stack[Len(stack) - 1].k = "trigger" /\ stack[Len(stack) - 1].q = <<"e2">>
    /\ stack[Len(stack) - 2].k = "run" /\ stack[Len(stack) - 2].e = "e1"
    /\ Has(targetMap["o"].dep["n"], "e1")

\* the effects whose bodies are running, outermost first
RunningEffects ==
    LET frames == SelectSeq(stack, LAMBDA f : f.k = "run")
    IN  [i \in 1..Len(frames) |-> frames[i].e]
\* C18: the active computation is the top of the computation stack, which
\* holds exactly the computations whose bodies are running (none active when
\* it is empty); after a nested run has returned, normally or by throwing,
\* the outer computation is active again, so every read is registered to the
\* computation whose body performed it; with no run left nothing is active.
C18_ActiveIsTopOfStack ==
    /\ effectStack = RunningEffects
    /\ activeEffect = (IF effectStack = <<>> THEN NoEffect
                       ELSE effectStack[Len(effectStack)])
    /\ Idle => activeEffect = NoEffect
    /\ \A e \in Effects :
          /\ deps[e] \subseteq readSet[e]
          /\ active[e] => readSet[e] \subseteq deps[e]
C18_Witness ==
    /\ Name = "self" /\ lastOp.kind = "proxyset"
    /\ TopIs("run") /\ Top.e = "e1" /\ Top.pc > Len(Prog("e1"))
    /\ runs["e2"] >= 1
    /\ activeEffect = "e1"
    /\ <<"oa", "b">> \in deps["e1"]
    /\ deps["e2"] = {<<"x", "value">>}
C18_WitnessThrow ==
    /\ Name = "self" /\ Idle /\ lastOp.threw
    /\ runs["e1"] = 1 /\ runs["e2"] = 1
    /\ activeEffect = NoEffect /\ effectStack = <<>>

\* C19: while a batch(fn) call is executing, also after a batch nested in fn
\* has returned, the batching flag stays set; it is cleared only when the
\* outermost batch call completes.
C19_NestedBatchCollapses ==
    /\ (\E i \in 1..Len(stack) : stack[i].k = "batch") => isBatching
    /\ Idle => ~isBatching

\* C20: assigning to .value of a computed made from a getter only does not
\* throw, reports the misuse, leaves value and dirty flag as they were and
\* triggers no dependent; assigning to a computed made from {get, set} calls
\* the supplied setter with the assigned value.
C20_ComputedSetter ==
    Returned("cset") =>
        /\ Len(evlog) > 0
        /\ evlog[Len(evlog)].w = lastOp.t
        /\ evlog[Len(evlog)].nv = lastOp.v
        /\ IF HasSetter(lastOp.t)
           THEN evlog[Len(evlog)].t = "setter"
           ELSE /\ evlog[Len(evlog)].t = "warn"
                /\ ~lastOp.threw
                /\ compVal[lastOp.t] = lastOp.prev
                /\ dirty[lastOp.t] = lastOp.wasDirty
                /\ notified = 0
                /\ \A e \in Effects : runs[e] = 0
C20_Witness ==
    /\ Returned("cset") /\ lastOp.t = "d1" /\ lastOp.v = Num(2)
    /\ ~dirty["d1"] /\ compVal["d1"] = Num(1)
    /\ Has(targetMap["d1"].dep["value"], "e1")
C20_WitnessSetter ==
    /\ Returned("cset") /\ lastOp.t = "d2" /\ lastOp.v = Num(2)
    /\ cellVal["x"] = Num(2) /\ writes[Len(writes)].prev = Num(1)
    /\ runs["e1"] = 1

\* the handle effect() returned for e has been called by the script
HandleCalled(e) == \E i \in 1..Len(evlog) : evlog[i].t = "handle" /\ evlog[i].w = e
\* C21: once the value effect() returned has been called, the computation is
\* torn down: a later write that changes a cell it had read does not run it.
C21_HandleIsStop ==
    \A e \in Plain :
        (Returned("refset") /\ HandleCalled(e) /\ ~lastOp.same) => runs[e] = 0

\* the log entries of the given kind made during the script's n-th statement
ThrowsIn(kind, n) ==
    {i \in 1..Len(evlog) : evlog[i].t = kind /\ evlog[i].nv = Num(n)}
EntriesOf(kind) == {i \in 1..Len(evlog) : evlog[i].t = kind}
\* C22: a body that throws while a write re-runs it makes that write throw, and
\* the body is not run again; a throw in a watcher job that runs as a microtask
\* reaches the host from the microtask and leaves the write as it returned.
C22_ThrowPropagates ==
    Idle =>
        /\ (ops > 0 /\ ThrowsIn("throw", ops) # {}) => lastOp.threw
        /\ \A i \in ThrowsIn("throw", ops) : runs[evlog[i].w] = 1
        /\ (Name = "throw" /\ lastOp.threw) => ThrowsIn("throw", ops) # {}
        /\ Cardinality(EntriesOf("mthrow")) = Cardinality(EntriesOf("uncaught"))
C22_Witness ==
    /\ Returned("refset") /\ lastOp.threw /\ Name = "throw"
    /\ \E i \in ThrowsIn("throw", ops) : evlog[i].w = "e1"
C22_WitnessMicrotask ==
    /\ Returned("refset") /\ ~lastOp.threw /\ Name = "throw"
    /\ lastOp.v = ThrowValue /\ ~lastOp.same
    /\ \E i \in EntriesOf("uncaught") : evlog[i].w = "wD" /\ evlog[i].wid = Len(writes)

\* C29: a job of a stopped watcher that the host takes from the microtask
\* queue still evaluates the getter, and the job of a stopped watcher calls
\* the callback whenever the firing condition holds.
C29_StoppedJobStillRuns ==
    [][/\ (/\ Idle /\ microQueue # <<>> /\ Head(microQueue).t = "job"
           /\ ~active[Head(microQueue).w]
           /\ microQueue' = Tail(microQueue))
          => /\ stack' # <<>>
             /\ stack'[Len(stack')].k = "run"
             /\ stack'[Len(stack')].e = Head(microQueue).w
             /\ runs'[Head(microQueue).w] = runs[Head(microQueue).w] + 1
       /\ (/\ TopIs("job") /\ ~active[Top.e] /\ stack' = Pop(stack)
           /\ JobFires(Top.e, ret, oldValue[Top.e]))
          => evlog' = Append(evlog, Event("cb", Top.e, Top.wid, ret, oldValue[Top.e]))
      ]_vars
C29_Witness ==
    \E i, j \in 1..Len(evlog) :
        /\ i < j
        /\ evlog[i].t = "stop" /\ evlog[j].t = "cb"
        /\ evlog[i].w = evlog[j].w /\ evlog[i].w \in {"wD", "wP"}
        /\ evlog[j].wid = evlog[i].wid

\* the dependency sets effect e is a member of
EdgesOf(e) == {tk \in Targets \X AllKeys : Has(targetMap[tk[1]].dep[tk[2]], e)}
Running(e) == \E i \in 1..Len(stack) : stack[i].k = "run" /\ stack[i].e = e
\* C30: a computation that is not running and not stopped is a member of
\* exactly the dependency sets of what it read in its latest run.
C30_EdgesAreLatestReads ==
    \A e \in Effects :
        (~Running(e) /\ active[e] /\ (created[e] \/ e \in Computeds))
            => EdgesOf(e) = readSet[e]
C30_Witness ==
    /\ Name = "branch" /\ Returned("proxyset")
    /\ lastOp.t = "o" /\ lastOp.key = "n" /\ ~lastOp.same
    /\ cellVal["x"] # WhenValue
    /\ readSet["e1"] = {<<"x", "value">>}
    /\ runs["e1"] = 0

\* the request has called fetch and its fetchPromise is not settled
InFlight(r) == req[r].st \in {"fetching", "sleeping"}
RetriedOnlyAfterFailure(r) ==
    \A i \in 1..(req[r].fetches - 1) :
        LET error == AttemptError(req[r].hist[i])
        IN  /\ req[r].hist[i] # "ok"
            /\ error.name # "AbortError"
            /\ error.name = "HttpError" => RetryCondition(error)
LastOutcome(r) == req[r].hist[Len(req[r].hist)]
\* the request has used all its attempts and the last one failed
LastAttemptFailed(r) ==
    /\ req[r].st \in {"settled", "done"} /\ req[r].leader = NoReq
    /\ Len(req[r].hist) = req[r].retries + 1
    /\ LastOutcome(r) # "ok"
\* C24 as stated: at most retries + 1 fetch calls, a retry only after a failure
\* that may be retried, no fetch after a success, and the request rejects with
\* the very error of its last permitted attempt.
C24_RetryBudget ==
    \A r \in Reqs :
        /\ req[r].fetches <= req[r].retries + 1
        /\ RetriedOnlyAfterFailure(r)
        /\ LastAttemptFailed(r) => req[r].promise = Rejected(AttemptError(LastOutcome(r)))
\* C24 amended: the same, but a last attempt that was aborted makes the request
\* reject with HttpError('Request aborted', status 0) instead of the AbortError.
C24_RetryBudgetAbortWrapped ==
    \A r \in Reqs :
        /\ req[r].fetches <= req[r].retries + 1
        /\ RetriedOnlyAfterFailure(r)
        /\ LastAttemptFailed(r) =>
              req[r].promise = Rejected(IF LastOutcome(r) = "abort" THEN HttpError(0)
                                        ELSE AttemptError(LastOutcome(r)))
C24_Witness ==
    /\ req["r1"].retries = MaxRetries /\ req["r1"].fetches = MaxRetries + 1
    /\ req["r1"].hist[1] = "network"
    /\ req["r1"].st = "done" /\ req["r1"].seen = Rejected(HttpError(500))

\* C25: the onclose that ran last scheduled a reconnect exactly when the close
\* of that socket had not been requested through close(), reconnect is enabled
\* and reconnectCount was below reconnectAttempts; reconnectCount never exceeds
\* reconnectAttempts and is 0 after every onopen; a timer creates no socket
\* after close() before open() has been called again.
C25_ReconnectOnlyWhenDue ==
    /\ wsh.last = "onclose" =>
          (wsh.scheduled <=> (/\ ~wsh.requested
                              /\ wsc.reconnect
                              /\ wsh.countWas < ReconnectAttempts))
    /\ reconnectCount <= ReconnectAttempts
    /\ wsh.last = "onopen" => reconnectCount = 0
    /\ ~wsh.createdWhileClosed

\* how often message m occurs in the sequence q
Occurrences(q, m) == Cardinality({i \in 1..Len(q) : q[i] = m})
\* the position of message m in the order the user sent the messages
SendIndex(m) == CHOOSE i \in 1..Len(MsgOrder) : MsgOrder[i] = m
RECURSIVE SumSent(_, _)
SumSent(S, m) ==
    IF S = {} THEN 0
    ELSE LET s == CHOOSE x \in S : TRUE
         IN  Occurrences(wsh.sentTo[s], m) + SumSent(S \ {s}, m)
\* C26: a message send() accepted has been passed to a socket exactly once or
\* is still in the queue, and every socket received its messages in the order
\* they were sent.
C26_NoMessageLost ==
    /\ \A m \in wsh.accepted :
          SumSent(Socks, m) + Occurrences(messageQueue, m) = 1
    /\ \A s \in Socks : \A i, j \in 1..Len(wsh.sentTo[s]) :
          i < j => SendIndex(wsh.sentTo[s][i]) < SendIndex(wsh.sentTo[s][j])

\* what handleSubmit call h got wrong in the part every reading of its contract
\* shares: the validation gate, isSubmitting after settling, the rejection
SubmitGateAndOutcome(h) ==
    LET s == sub[h]
        failed == formOpt.validateOnSubmit /\ ~s.valid
    IN /\ s.st # "idle" /\ failed =>
             /\ s.calls = <<>>
             /\ s.st = "settled"
             /\ ~s.result.success /\ s.result.kind = "errors"
       /\ s.st = "settled" /\ s.calls # <<>> => ~s.submitting
       /\ s.st = "settled" /\ ~failed /\ s.on # "resolves" /\ s.calls # <<>> =>
             /\ s.result = Failure("error", "E_submit")
             /\ s.stored = "E_submit"
       /\ s.st = "settled" /\ ~failed /\ s.on = "resolves" /\ s.calls # <<>> =>
             s.result.success

\* C27: for every handleSubmit(onSubmit) call: when validation on submit is
\* enabled and fails, onSubmit is not called and the result is {success: false,
\* errors}; otherwise onSubmit is called exactly once with the form values, and
\* once the call has settled isSubmitting is false, a rejection being returned
\* as {success: false, error} and stored in submitError.
C27_SubmitContract ==
    \A h \in Subs :
       /\ SubmitGateAndOutcome(h)
       /\ sub[h].st # "idle" /\ ~(formOpt.validateOnSubmit /\ ~sub[h].valid) =>
             sub[h].calls = <<sub[h].formValues>>

\* C27 (amended): as C27, except that with the `transform` option onSubmit is
\* called exactly once with transform(values), and when transform throws
\* onSubmit is not called and the exception is reported like a rejection.
C27_SubmitContractWithTransform ==
    \A h \in Subs :
       /\ SubmitGateAndOutcome(h)
       /\ sub[h].st # "idle" /\ ~(formOpt.validateOnSubmit /\ ~sub[h].valid) =>
             CASE formOpt.transform = "none" -> sub[h].calls = <<sub[h].formValues>>
               [] formOpt.transform = "upper" ->
                     sub[h].calls = <<Upper(sub[h].formValues)>>
               [] formOpt.transform = "throws" ->
                     /\ sub[h].calls = <<>>
                     /\ sub[h].st = "settled"
                     /\ sub[h].result = Failure("error", "E_transform")
                     /\ sub[h].stored = "E_transform"
                     /\ ~sub[h].submitting

\* a call whose onSubmit got the transformed values and rejected has settled,
\* after another call was stopped by a failed validation
C27_Witness ==
    \E h, g \in Subs :
       /\ sub[h].st = "settled" /\ sub[h].on = "rejects"
       /\ formOpt.transform = "upper" /\ sub[h].calls = <<"JOHN">>
       /\ submitError = "E_submit" /\ ~isSubmitting
       /\ sub[g].st = "settled" /\ formOpt.validateOnSubmit /\ ~sub[g].valid

TaskIndex(t) == CHOOSE i \in 1..Len(TaskOrder) : TaskOrder[i] = t

\* C28: for createQueue(c), the number of tasks running at the same time never
\* exceeds c, and tasks are started in the order in which they were added.
C28_ConcurrencyAndOrder ==
    /\ Cardinality({t \in Tasks : task[t].st = "running"}) <= concurrency
    /\ running <= concurrency
    /\ \A i, j \in 1..Len(started) :
          i < j => TaskIndex(started[i]) < TaskIndex(started[j])

\* the queue is full, a later task waits, and a task has already been started
\* in the place of one that finished
C28_Witness ==
    /\ concurrency = 2 /\ running = 2
    /\ Cardinality({t \in Tasks : task[t].st = "running"}) = 2
    /\ Len(started) >= 3
    /\ queue # <<>>

\* C31: the dependency registry and the back-references agree: e is a member of
\* the dependency set of (t, key) iff that set is in e.deps, and e occurs at
\* most once in it; in every reachable state (so after track, a run and stop).
C31_RegistryAgreesWithDeps ==
    \A e \in Effects, t \in Targets, key \in AllKeys :
       /\ Has(targetMap[t].dep[key], e) <=> <<t, key>> \in deps[e]
       /\ Occurrences(targetMap[t].dep[key], e) <= 1

\* an effect that had read something has been stopped and has no edge left,
\* while another effect is still registered
C31_Witness ==
    \E e, f \in Effects :
       /\ e # f
       /\ created[e] /\ ~active[e] /\ readSet[e] # {} /\ deps[e] = {}
       /\ deps[f] # {}
       /\ Idle

\* C32: every computation registered on a key when a changing write is made is
\* notified during that write, even when another dependent of the key throws
\* while being notified; the written value is applied in either case.
\* (Writes to arrays are left to the claims about length and index keys.)
C32_AllDependentsNotified ==
    (/\ Idle /\ lastOp.kind \in {"refset", "proxyset"} /\ ~lastOp.same
     /\ ~IsArray(heap, lastOp.t)) =>
        /\ \A e \in lastOp.readers : runs[e] >= 1
        /\ lastOp.kind = "refset" => cellVal[lastOp.t] = lastOp.v

\* C33: no computation is started while an earlier run of it is still in
\* progress: each computation occurs at most once on the stack of running
\* computations, also when plain computations write to each other's dependencies.
C33_NoReentrantRun ==
    \A i, j \in 1..Len(effectStack) : i < j => effectStack[i] # effectStack[j]

\* C34: a cleanup function registered by a watcher callback is invoked at most
\* once per registration, over any sequence of job runs and any number of calls
\* of the watcher's stop function.
C34_CleanupAtMostOnce ==
    \A i, j \in 1..Len(evlog) :
       (/\ i < j
        /\ evlog[i].t = "cleanup" /\ evlog[j].t = "cleanup"
        /\ evlog[i].w = evlog[j].w) => evlog[i].nv # evlog[j].nv

\* the watchers the programs create with the default flush, without deep, on a
\* getter that returns a primitive computed from the cell
DefaultWatchers ==
    {w \in {"wD", "wI", "wK"} : created[w] /\ active[w] /\ Prog(w)[1].op \in {"cell", "ret"}}
\* what such a getter returns when the cell holds v
GetterValue(w, v) == IF Prog(w)[1].op = "ret" THEN v ELSE JsAdd(Num(0), v)
\* the jobs of w that have run, in the order of the log
JobEvents(w) ==
    SelectSeq(evlog, LAMBDA ev : ev.w = w /\ ev.t \in {"cb", "nocb", "mthrow"})
\* the writes i..Len(writes) were made with no job of w waiting before the
\* first and no job of w run between them, and every job they queued has run
BurstFrom(w, i) ==
    /\ Idle /\ w \notin {microQueue[j].w : j \in 1..Len(microQueue)}
    /\ w \notin writes[i].queued
    /\ \A m \in i..Len(writes) :
          /\ writes[m].t = "x" /\ w \in writes[m].ws
          /\ writes[m].jobs[w] = writes[i].jobs[w]
\* the callback invocations of w since write i
CallbacksSince(w, i) ==
    LET log == JobEvents(w)
    IN  SelectSeq(SubSeq(log, writes[i].jobs[w] + 1, Len(log)), LAMBDA ev : ev.t = "cb")

\* C35: for a default-flush, non-deep watcher of a primitive, k >= 1
\* synchronous writes before the next microtask checkpoint invoke the callback
\* at most once; exactly once, with (last written value, value before the first
\* write), when these two differ; and never with newValue equal to oldValue.
C35_OneCallbackPerBurst ==
    \A w \in DefaultWatchers : \A i \in 1..Len(writes) :
       BurstFrom(w, i) =>
          LET cbs == CallbacksSince(w, i)
              last == GetterValue(w, writes[Len(writes)].v)
              first == GetterValue(w, writes[i].prev)
          IN  /\ Len(cbs) <= 1
              /\ ~SameValue(last, first) =>
                    /\ Len(cbs) = 1
                    /\ cbs[1].nv = last /\ cbs[1].ov = first
              /\ \A j \in 1..Len(cbs) : ~SameValue(cbs[j].nv, cbs[j].ov)

\* C36: a write to an array container's `length` never raises an error from
\* the engine itself, whichever keys of the array computations have read
\* (the bodies of the programs that read arrays never throw themselves).
C36_LengthWriteNeverThrows ==
    (/\ Idle /\ lastOp.kind = "proxyset" /\ IsArray(heap, lastOp.t)
     /\ lastOp.key = "length") => ~lastOp.threw

\* the functions of a kind whose use() call returned id
UsersOf(kind, id) == {f \in Handlers : usedId[kind][f] = id}

\* C37: eject(id) removes exactly the interceptor whose use() call returned id
\* and leaves every other registered interceptor installed, in registration
\* order (judged when one use() call only has returned id).
C37_EjectRemovesItsInterceptor ==
    (lastEject.id # NoId /\ Cardinality(UsersOf(lastEject.kind, lastEject.id)) = 1) =>
        Registered(lastEject.kind) =
            SelectSeq(lastEject.before,
                      LAMBDA f : f \notin UsersOf(lastEject.kind, lastEject.id))

\* C39: for usePolling, at most one polling chain is active at any time (at
\* most one in-flight poll or pending timer in total), and after stop() no
\* further request is started (until start() is called again).
C39_OnePollingChain ==
    /\ Cardinality({p \in Polls : poll[p] = "awaiting"}) + Cardinality(pollTimers) <= 1
    /\ ~pollh.startedAfterStop

\* C38: for one useWebSocket instance at most one socket that is connecting or
\* open exists at any time, and status and the reconnect scheduling are only
\* changed by events of the current socket.
C38_OneSocketAndCurrentEvents ==
    [][/\ Cardinality({s \in Socks : sock'[s] \in {"connecting", "open"}}) <= 1
       /\ \A s \in Socks :
             ((SockOpens(s) \/ SockCloses(s)) /\ s # ws) =>
                 UNCHANGED <<status, reconnectCount, reconnectTimer, timers>>]_vars

\* C40: validate() returns true if and only if the errors object has no
\* entries when it returns, for any combination of a custom validate function
\* and per-field rules.
C40_ValidIffNoErrors ==
    validated.called => (validated.ok <=> validated.errors = NoErr)

====
